---- MODULE Spec2Model ----
(***************************************************************************)
(* PaperArena: the two territory-claiming engines of src/unnamed/part_000. *)
(*                                                                         *)
(*   PaperIOGame        (lines 1-439)    the Grid engine                   *)
(*   SmoothPaperIOGame  (lines 440-1007) the Continuous engine             *)
(*                                                                         *)
(* One engine is active in a page.  The variable `engine' says which one   *)
(* a behaviour runs; the two engines share the variables that hold the     *)
(* fields of the same name (players, gameRunning, gameStartTime).          *)
(*                                                                         *)
(* JavaScript runs every callback to completion, so key events, restart    *)
(* and a new animation frame happen only while pc = "idle".  One frame     *)
(* (gameLoop) is split into the steps the code runs in sequence, so that   *)
(* the state between two steps of a frame can be observed.                 *)
(***************************************************************************)
EXTENDS Integers, Sequences, FiniteSets, TLC

\* ------------------------------------------------------------------ bounds
\* Board of the Grid engine in cells (canvas size / gridSize; the canvas is
\* declared by the host page).
mapWidth == 7
mapHeight == 7
\* Animation frames per behaviour after the frame the constructor runs; events
\* after the last frame are not followed.  MaxTicks bounds the behaviours with
\* stalled frames and restarts, GridTicks and DeepTicks those of regular play
\* in the Grid and in the Continuous engine.
MaxTicks == 2
GridTicks == 4
DeepTicks == 4
\* Frames in the behaviours that explore the keyboard.
KeyTicks == 1
\* Cells given an owner by hand before floodFillTerritory is applied.
MaxPaint == 4
\* Edits by hand to the board and the players before isValidMove is applied.
MaxEdits == 2
\* Times, over a behaviour, a Grid AI leaves a direction that is still valid
\* (Math.random() >= 0.9 at line 147 and another direction drawn).
MaxTurns == 1
\* Restarts per behaviour.
MaxRestarts == 1
\* Date.now() when the page constructs the game.
Epoch == 1000

\* -------------------------------------------------------- program constants
gameTimeLimit == 180000
humanMoveInterval == 100
aiMoveIntervalBase == 150

\* Wall-clock time between two animation frames, in ms: a frame in which
\* every player is due, and a stalled page.
FrameDeltas == {250, gameTimeLimit}
\* Math.random() * 100 in an AI's moveInterval, truncated to ms.
IntervalJitter == {50}

ArrowKeys == {"ArrowUp", "ArrowDown", "ArrowLeft", "ArrowRight"}
Keys == ArrowKeys \cup {"Enter"}
noKeys == [k \in ArrowKeys |-> FALSE]

VARIABLES
    engine,         \* "grid" or "smooth": the class the page instantiated
    players,        \* this.players, an array (1-based here)
    grid,           \* this.grid[y][x], the owner id of a cell or 0
    gameRunning,    \* this.gameRunning
    gameStartTime,  \* this.gameStartTime
    now,            \* the wall clock, Date.now()
    scores,         \* the rows last written to the score panel
    gameOver,       \* the game-over panel
    pc,             \* where the running callback stands: "idle" between two
                    \* callbacks, "players" in the loop of updatePlayers,
                    \* "end" before checkGameEnd
    cur,            \* the index the loop of updatePlayers has reached
    keys,           \* Continuous: the key-state map of setupEventListeners
    lastFrameTime,  \* Continuous: this.lastFrameTime
    deltaTime,      \* Continuous: deltaTime of the running frame, in ms
    ticks, turns, restarts,   \* the counters the bounds cap
    probe           \* the last application of a board function on its own

vars == <<engine, players, grid, gameRunning, gameStartTime, now, scores,
          gameOver, pc, cur, keys, lastFrameTime, deltaTime, ticks, turns,
          restarts, probe>>

\* ------------------------------------------------------------------ helpers
Dir(dx, dy) == [x |-> dx, y |-> dy]
ZeroDir == Dir(0, 0)
Pos(px, py) == [x |-> px, y |-> py]

\* The territory Set's key `${x},${y}`: one key per integer pair.
Key(x, y) == <<x, y>>
\* pos.split(',').map(Number)
ParseKey(k) == Pos(k[1], k[2])

\* Array.prototype.some over a trail: pos.x === x && pos.y === y
TrailHas(trail, x, y) == \E k \in DOMAIN trail : trail[k].x = x /\ trail[k].y = y

\* players.filter(p => p.alive).length
AliveCount(ps) == Cardinality({k \in DOMAIN ps : ps[k].alive})

\* Number of grid cells whose stored owner is id.
OwnedCells(g, id) ==
    Cardinality({c \in (0 .. mapWidth - 1) \X (0 .. mapHeight - 1) : g[c[2]][c[1]] = id})

\* ((size / total) * 100).toFixed(1), in tenths of a percent.
Percentage(size, total) == (2000 * size + total) \div (2 * total)

\* InsertDesc with e put before the elements of equal key.
RECURSIVE InsertDescBeforeEqual(_, _)
InsertDescBeforeEqual(sorted, e) ==
    IF sorted = <<>> THEN <<e>>
    ELSE IF Head(sorted).key > e.key
         THEN <<Head(sorted)>> \o InsertDescBeforeEqual(Tail(sorted), e)
         ELSE <<e>> \o sorted

\* Array.prototype.sort with a comparator on one numeric key, descending, over
\* entries [key, item]: stable insertion of each entry after the entries whose
\* key is >= its own.
RECURSIVE InsertDesc(_, _)
InsertDesc(sorted, e) ==
    IF sorted = <<>> THEN <<e>>
    ELSE IF Head(sorted).key >= e.key
         THEN <<Head(sorted)>> \o InsertDesc(Tail(sorted), e)
         ELSE <<e>> \o sorted

RECURSIVE SortDesc(_)
SortDesc(s) ==
    IF s = <<>> THEN <<>>
    ELSE InsertDesc(SortDesc(SubSeq(s, 1, Len(s) - 1)), s[Len(s)])

\* =================================================================== Grid
directions == <<Dir(0, -1), Dir(0, 1), Dir(-1, 0), Dir(1, 0)>>

startPositions ==
    <<Pos(5, 5), Pos(mapWidth - 6, 5), Pos(5, mapHeight - 6),
      Pos(mapWidth - 6, mapHeight - 6)>>

isValidPosition(x, y) == x >= 0 /\ x < mapWidth /\ y >= 0 /\ y < mapHeight

\* PaperIOGame.updateScores: one row per player, in array order.
updateScores(ps) ==
    [k \in DOMAIN ps |->
        [id |-> ps[k].id,
         size |-> Cardinality(ps[k].territory),
         percentage |-> Percentage(Cardinality(ps[k].territory), mapWidth * mapHeight),
         alive |-> ps[k].alive]]

\* The 3x3 starting square of a player standing on (px, py).
startTerritory(px, py) ==
    {Key(px + dx, py + dy) : dx \in -1 .. 1, dy \in -1 .. 1}
        \cap {Key(x, y) : x \in 0 .. mapWidth - 1, y \in 0 .. mapHeight - 1}

\* One iteration of the loop of initializeGame: player i (0-based) is created,
\* its square written into the grid over whatever was there.
newPlayer(i, jitter) ==
    [id |-> i + 1,
     x |-> startPositions[i + 1].x,
     y |-> startPositions[i + 1].y,
     direction |-> ZeroDir,
     trail |-> <<>>,
     territory |-> startTerritory(startPositions[i + 1].x, startPositions[i + 1].y),
     alive |-> TRUE,
     isHuman |-> (i = 0),
     lastMoveTime |-> 0,
     moveInterval |-> IF i = 0 THEN humanMoveInterval ELSE aiMoveIntervalBase + jitter]

RECURSIVE initGrid(_, _)
initGrid(g, i) ==
    IF i = 4 THEN g
    ELSE LET t == startTerritory(startPositions[i + 1].x, startPositions[i + 1].y)
         IN  initGrid([y \in 0 .. mapHeight - 1 |->
                         [x \in 0 .. mapWidth - 1 |->
                            IF Key(x, y) \in t THEN i + 1 ELSE g[y][x]]], i + 1)

emptyGrid == [y \in 0 .. mapHeight - 1 |-> [x \in 0 .. mapWidth - 1 |-> 0]]

\* isValidMove with the trail of every other player tested, alive or not.
isValidMoveAnyTrail(ps, g, k, x, y) ==
    IF x < 0 \/ x >= mapWidth \/ y < 0 \/ y >= mapHeight THEN FALSE
    ELSE IF g[y][x] # 0 /\ g[y][x] # ps[k].id THEN FALSE
    ELSE IF TrailHas(ps[k].trail, x, y) THEN FALSE
    ELSE ~ \E o \in DOMAIN ps :
              ps[o].id # ps[k].id /\ TrailHas(ps[o].trail, x, y)

\* PaperIOGame.isValidMove
isValidMove(ps, g, k, x, y) ==
    IF x < 0 \/ x >= mapWidth \/ y < 0 \/ y >= mapHeight THEN FALSE
    ELSE IF g[y][x] # 0 /\ g[y][x] # ps[k].id THEN FALSE
    ELSE IF TrailHas(ps[k].trail, x, y) THEN FALSE
    ELSE ~ \E o \in DOMAIN ps :
              /\ ps[o].id # ps[k].id
              /\ ps[o].alive
              /\ TrailHas(ps[o].trail, x, y)

\* PaperIOGame.getConnectedRegion: the stack loop.  The result is the region
\* and the visited set the caller goes on with.
RECURSIVE getConnectedRegion(_, _, _, _)
getConnectedRegion(g, stack, visited, region) ==
    IF stack = <<>> THEN [region |-> region, visited |-> visited]
    ELSE LET top == stack[Len(stack)]
             rest == SubSeq(stack, 1, Len(stack) - 1)
             key == Key(top.x, top.y)
         IN  IF key \in visited \/ key \in region
                THEN getConnectedRegion(g, rest, visited, region)
             ELSE IF top.x < 0 \/ top.x >= mapWidth \/ top.y < 0 \/ top.y >= mapHeight
                THEN getConnectedRegion(g, rest, visited, region)
             ELSE IF g[top.y][top.x] # 0
                THEN getConnectedRegion(g, rest, visited, region)
             ELSE getConnectedRegion(g,
                     rest \o <<Pos(top.x + 1, top.y), Pos(top.x - 1, top.y),
                               Pos(top.x, top.y + 1), Pos(top.x, top.y - 1)>>,
                     visited \cup {key}, region \cup {key})

\* regionTouchesBorder with the tests of the top and the bottom row left out.
regionTouchesSides(region) ==
    \E k \in region : ParseKey(k).x = 0 \/ ParseKey(k).x = mapWidth - 1

\* PaperIOGame.regionTouchesBorder
regionTouchesBorder(region) ==
    \E k \in region :
        LET p == ParseKey(k)
        IN  p.x = 0 \/ p.x = mapWidth - 1 \/ p.y = 0 \/ p.y = mapHeight - 1

\* PaperIOGame.floodFillTerritory: cell n of the scan (x outer, y inner).  The
\* result is the grid and the territory set of the claiming player.
RECURSIVE floodFillScan(_, _, _, _, _)
floodFillScan(g, territory, id, visited, n) ==
    IF n = mapWidth * mapHeight THEN [grid |-> g, territory |-> territory]
    ELSE LET x == n \div mapHeight
             y == n % mapHeight
         IN  IF g[y][x] = 0 /\ Key(x, y) \notin visited
             THEN LET r == getConnectedRegion(g, <<Pos(x, y)>>, visited, {})
                  IN  IF ~ regionTouchesBorder(r.region)
                      THEN floodFillScan(
                              [yy \in 0 .. mapHeight - 1 |->
                                 [xx \in 0 .. mapWidth - 1 |->
                                    IF Key(xx, yy) \in r.region THEN id ELSE g[yy][xx]]],
                              territory \cup r.region, id, r.visited, n + 1)
                      ELSE floodFillScan(g, territory, id, r.visited, n + 1)
             ELSE floodFillScan(g, territory, id, visited, n + 1)

floodFillTerritory(g, territory, id) == floodFillScan(g, territory, id, {}, 0)

\* claimTerritory with the trail left as it is.
claimTerritoryKeepingTrail(w, k) ==
    LET p == w.players[k]
        cells == {Key(p.trail[j].x, p.trail[j].y) : j \in DOMAIN p.trail}
        g1 == [y \in 0 .. mapHeight - 1 |->
                 [x \in 0 .. mapWidth - 1 |->
                    IF Key(x, y) \in cells THEN p.id ELSE w.grid[y][x]]]
        f == floodFillTerritory(g1, p.territory \cup cells, p.id)
        ps == [w.players EXCEPT ![k].territory = f.territory]
    IN  IF Len(p.trail) = 0 THEN w
        ELSE [w EXCEPT !.players = ps, !.grid = f.grid, !.scores = updateScores(ps)]

\* PaperIOGame.claimTerritory on the world w = [players, grid, scores, turns].
claimTerritory(w, k) ==
    LET p == w.players[k]
        cells == {Key(p.trail[j].x, p.trail[j].y) : j \in DOMAIN p.trail}
        g1 == [y \in 0 .. mapHeight - 1 |->
                 [x \in 0 .. mapWidth - 1 |->
                    IF Key(x, y) \in cells THEN p.id ELSE w.grid[y][x]]]
        f == floodFillTerritory(g1, p.territory \cup cells, p.id)
        ps == [w.players EXCEPT ![k].territory = f.territory, ![k].trail = <<>>]
    IN  IF Len(p.trail) = 0 THEN w
        ELSE [w EXCEPT !.players = ps, !.grid = f.grid, !.scores = updateScores(ps)]

\* eliminatePlayer with the loop over the other players reading the trail as
\* it was before it was emptied.
eliminatePlayerAndCrossers(ps, k) ==
    [o \in DOMAIN ps |->
        IF o = k
           \/ /\ ps[o].id # ps[k].id
              /\ ps[o].alive
              /\ \E j \in DOMAIN ps[k].trail :
                    TrailHas(ps[o].trail, ps[k].trail[j].x, ps[k].trail[j].y)
        THEN [ps[o] EXCEPT !.alive = FALSE, !.trail = <<>>]
        ELSE ps[o]]

\* PaperIOGame.eliminatePlayer: the flag and the trail, then the loop over the
\* other players, which reads the trail just emptied.
RECURSIVE eliminatePlayer(_, _)
RECURSIVE eliminateOthers(_, _, _)
eliminatePlayer(ps, k) ==
    eliminateOthers([ps EXCEPT ![k].alive = FALSE, ![k].trail = <<>>], k, 1)

eliminateOthers(ps, k, o) ==
    IF o > Len(ps) THEN ps
    ELSE IF /\ ps[o].id # ps[k].id
            /\ ps[o].alive
            /\ \E j \in DOMAIN ps[k].trail :
                  TrailHas(ps[o].trail, ps[k].trail[j].x, ps[k].trail[j].y)
         THEN eliminateOthers(eliminatePlayer(ps, o), k, o + 1)
         ELSE eliminateOthers(ps, k, o + 1)

\* movePlayer with the cell left behind put on the trail wherever it lies.
movePlayerTrailingEverywhere(w, k) ==
    LET p == w.players[k]
        newX == p.x + p.direction.x
        newY == p.y + p.direction.y
        trail1 == Append(p.trail, Pos(p.x, p.y))
        w1 == [w EXCEPT !.players[k].trail = trail1,
                        !.players[k].x = newX,
                        !.players[k].y = newY]
    IN  IF ~ isValidMove(w.players, w.grid, k, newX, newY)
        THEN [w EXCEPT !.players = eliminatePlayer(w.players, k)]
        ELSE IF Key(newX, newY) \in p.territory /\ Len(trail1) > 0
             THEN claimTerritory(w1, k)
             ELSE w1

\* PaperIOGame.movePlayer
movePlayer(w, k) ==
    LET p == w.players[k]
        newX == p.x + p.direction.x
        newY == p.y + p.direction.y
        trail1 == IF Key(p.x, p.y) \notin p.territory
                  THEN Append(p.trail, Pos(p.x, p.y))
                  ELSE p.trail
        w1 == [w EXCEPT !.players[k].trail = trail1,
                        !.players[k].x = newX,
                        !.players[k].y = newY]
    IN  IF ~ isValidMove(w.players, w.grid, k, newX, newY)
        THEN [w EXCEPT !.players = eliminatePlayer(w.players, k)]
        ELSE IF Key(newX, newY) \in p.territory /\ Len(trail1) > 0
             THEN claimTerritory(w1, k)
             ELSE w1

\* safeDirections without the test that keeps the reverse direction out.
safeDirectionsWithReverse(ps, g, k) ==
    {d \in {directions[n] : n \in DOMAIN directions} :
        isValidMove(ps, g, k, ps[k].x + d.x, ps[k].y + d.y)}

\* PaperIOGame.updateAI, the filter: the valid directions that do not reverse.
safeDirections(ps, g, k) ==
    {d \in {directions[n] : n \in DOMAIN directions} :
        /\ isValidMove(ps, g, k, ps[k].x + d.x, ps[k].y + d.y)
        /\ ~ (d.x = -ps[k].direction.x /\ d.y = -ps[k].direction.y)}

\* PaperIOGame.updateAI: the directions the player can leave updateAI with.
\* `draw' says whether Math.random() < 0.9 at line 147.
updateAI(ps, g, k, draw) ==
    LET p == ps[k]
        safe == safeDirections(ps, g, k)
    IN  IF p.direction.x = 0 /\ p.direction.y = 0
        THEN {directions[n] : n \in DOMAIN directions}
        ELSE IF isValidMove(ps, g, k, p.x + p.direction.x, p.y + p.direction.y) /\ draw
             THEN {p.direction}
             ELSE IF safe # {} THEN safe ELSE {p.direction}

\* gameEnds with the test of the clock left out.
gameEndsByCount(ps, elapsed) == AliveCount(ps) <= 1

\* PaperIOGame.checkGameEnd, the condition.
gameEnds(ps, elapsed) == AliveCount(ps) <= 1 \/ elapsed >= gameTimeLimit

\* PaperIOGame.showGameOver: the players array sorted in place, and the panel.
showGameOver(ps) ==
    LET size(p) == Cardinality(p.territory)
        keyed == SortDesc([k \in DOMAIN ps |-> [key |-> size(ps[k]), item |-> ps[k]]])
        sorted == [r \in DOMAIN keyed |-> keyed[r].item]
    IN  [players |-> sorted,
         panel |-> [shown |-> TRUE,
                    ranking |-> [r \in DOMAIN sorted |->
                                   [id |-> sorted[r].id,
                                    size |-> size(sorted[r]),
                                    percentage |-> Percentage(size(sorted[r]),
                                                              mapWidth * mapHeight)]]]]

noPanel == [shown |-> FALSE, ranking |-> <<>>]

noProbe == [op |-> "none", edits |-> 0]

\* ------------------------------------------------------------ Grid actions
\* PaperIOGame.updatePlayers, one iteration of the loop, for players[k] at clock
\* reading t.  The draws of Math.random() decide the direction an AI player
\* leaves updateAI with: playerDraws is the set of outcomes [direction, turns]
\* (turns: the counter MaxTurns caps), and updatePlayer the world one of them
\* leaves behind.

\* playerDue without the test of the alive flag.
playerDueIgnoringAlive(p, t) == t - p.lastMoveTime >= p.moveInterval

\* The two tests an iteration of updatePlayers starts with: the player is alive
\* and its move interval has passed.
playerDue(p, t) == p.alive /\ t - p.lastMoveTime >= p.moveInterval

playerDraws(w, k, t) ==
    LET p == w.players[k]
        steady == updateAI(w.players, w.grid, k, TRUE)
        turned == IF w.turns < MaxTurns
                  THEN updateAI(w.players, w.grid, k, FALSE) \ steady
                  ELSE {}
    IN  IF ~ playerDue(p, t) \/ p.isHuman
        THEN {[direction |-> p.direction, turns |-> w.turns]}
        ELSE {[direction |-> d, turns |-> w.turns] : d \in steady}
                \cup {[direction |-> d, turns |-> w.turns + 1] : d \in turned}

\* updatePlayer with lastMoveTime written whenever the player is due.
updatePlayerStampingAlways(w, k, t, draw) ==
    LET p == w.players[k]
        w1 == [w EXCEPT !.players[k].direction = draw.direction,
                        !.turns = draw.turns]
    IN  IF ~ playerDue(p, t) THEN w
        ELSE IF draw.direction.x # 0 \/ draw.direction.y # 0
             THEN [movePlayer(w1, k) EXCEPT !.players[k].lastMoveTime = t]
             ELSE [w1 EXCEPT !.players[k].lastMoveTime = t]

\* PaperIOGame.updatePlayers, the body of the loop for players[k] once the
\* draws are made.
updatePlayer(w, k, t, draw) ==
    LET p == w.players[k]
        w1 == [w EXCEPT !.players[k].direction = draw.direction,
                        !.turns = draw.turns]
    IN  IF ~ playerDue(p, t) THEN w
        ELSE IF draw.direction.x # 0 \/ draw.direction.y # 0
             THEN [movePlayer(w1, k) EXCEPT !.players[k].lastMoveTime = t]
             ELSE w1

\* PaperIOGame.initializeGame at clock reading t: a fresh board and four fresh
\* players; jit[i] is the draw of player i's moveInterval.
initializeGame(t, jit) ==
    LET ps == [i \in 1 .. 4 |-> newPlayer(i - 1, jit[i])]
    IN  [players |-> ps,
         grid |-> initGrid(emptyGrid, 0),
         gameRunning |-> TRUE,
         gameStartTime |-> t,
         scores |-> updateScores(ps)]

\* The constructor of PaperIOGame has run initializeGame and
\* setupEventListeners and enters its call of gameLoop, which has read the
\* clock: the loop of updatePlayers is next.
InitGridAt(turned) ==
    /\ engine = "grid"
    /\ now = Epoch
    /\ \E jit \in [1 .. 4 -> IntervalJitter] :
          LET g == initializeGame(Epoch, jit)
          IN  /\ players = g.players
              /\ grid = g.grid
              /\ gameRunning = g.gameRunning
              /\ gameStartTime = g.gameStartTime
              /\ scores = g.scores
    /\ gameOver = noPanel
    /\ pc = "players"
    /\ cur = 1
    /\ keys = noKeys
    /\ lastFrameTime = 0
    /\ deltaTime = 0
    /\ ticks = 0
    /\ turns = turned
    /\ restarts = 0
    /\ probe = noProbe

InitGrid == InitGridAt(0)

\* The constructor, in the behaviours in which no AI leaves a direction that is
\* still valid.
InitGridSteady == InitGridAt(MaxTurns)

\* The keydown listener of PaperIOGame.setupEventListeners.
keydownDirection(d, key) ==
    IF key = "ArrowUp" /\ d.y # 1 THEN Dir(0, -1)
    ELSE IF key = "ArrowDown" /\ d.y # -1 THEN Dir(0, 1)
    ELSE IF key = "ArrowLeft" /\ d.x # 1 THEN Dir(-1, 0)
    ELSE IF key = "ArrowRight" /\ d.x # -1 THEN Dir(1, 0)
    ELSE d

\* The keydown listener without its test of gameRunning.
keydownWhileStopped(ps, running, key) ==
    IF ps[1].alive
    THEN [ps EXCEPT ![1].direction = keydownDirection(ps[1].direction, key)]
    ELSE ps

\* The keydown listener of PaperIOGame.setupEventListeners: the players array
\* it leaves.
keydown(ps, running, key) ==
    IF running /\ ps[1].alive
    THEN [ps EXCEPT ![1].direction = keydownDirection(ps[1].direction, key)]
    ELSE ps

GridKeyDown(key, limit) ==
    /\ engine = "grid"
    /\ pc = "idle"
    /\ ticks < limit
    /\ players' = keydown(players, gameRunning, key)
    /\ UNCHANGED <<engine, grid, gameRunning, gameStartTime, now, scores,
                   gameOver, pc, cur, keys, lastFrameTime, deltaTime, ticks, turns,
                   restarts, probe>>

\* gameLoop calling updatePlayers whether the game is running or not.
GridGameLoopWhileStopped(dt, limit) ==
    /\ engine = "grid"
    /\ pc = "idle"
    /\ ticks < limit
    /\ ticks' = ticks + 1
    /\ now' = now + dt
    /\ pc' = "players"
    /\ cur' = 1
    /\ UNCHANGED <<engine, players, grid, gameRunning, gameStartTime, scores,
                   gameOver, turns, restarts, keys, lastFrameTime, deltaTime, probe>>

\* PaperIOGame.gameLoop, entry: an animation frame dt ms after the last clock
\* reading.  While the game is not running the frame only renders.
GridGameLoop(dt, limit) ==
    /\ engine = "grid"
    /\ pc = "idle"
    /\ ticks < limit
    /\ ticks' = ticks + 1
    /\ now' = now + dt
    /\ pc' = IF gameRunning THEN "players" ELSE "idle"
    /\ cur' = IF gameRunning THEN 1 ELSE 0
    /\ UNCHANGED <<engine, players, grid, gameRunning, gameStartTime, scores,
                   gameOver, turns, restarts, keys, lastFrameTime, deltaTime, probe>>

\* PaperIOGame.updatePlayers: one iteration of the loop, for players[cur].
GridUpdatePlayer ==
    /\ engine = "grid"
    /\ pc = "players"
    /\ \E w0 \in {[players |-> players, grid |-> grid, scores |-> scores,
                    turns |-> turns]} :
       \E draw \in playerDraws(w0, cur, now) :
       \E w \in {updatePlayer(w0, cur, now, draw)} :
          /\ players' = w.players
          /\ grid' = w.grid
          /\ scores' = w.scores
          /\ turns' = w.turns
    /\ cur' = IF cur = Len(players) THEN 0 ELSE cur + 1
    /\ pc' = IF cur = Len(players) THEN "end" ELSE "players"
    /\ UNCHANGED <<engine, gameRunning, gameStartTime, now, gameOver, ticks,
                   restarts, keys, lastFrameTime, deltaTime, probe>>

\* The end of a tick of a gameLoop that does not call checkGameEnd.
GridGameLoopWithoutCheck ==
    /\ engine = "grid"
    /\ pc = "end"
    /\ pc' = "idle"
    /\ UNCHANGED <<engine, players, grid, gameRunning, gameStartTime, now,
                   scores, gameOver, cur, ticks, turns, restarts, keys,
                   lastFrameTime, deltaTime, probe>>

\* PaperIOGame.checkGameEnd (with showGameOver), the last step of the frame.
GridCheckGameEnd ==
    /\ engine = "grid"
    /\ pc = "end"
    /\ pc' = "idle"
    /\ IF gameEnds(players, now - gameStartTime)
       THEN \E over \in {showGameOver(players)} :
               /\ gameRunning' = FALSE
               /\ players' = over.players
               /\ gameOver' = over.panel
       ELSE UNCHANGED <<gameRunning, players, gameOver>>
    /\ UNCHANGED <<engine, grid, gameStartTime, now, scores, cur, ticks, turns,
                   restarts, keys, lastFrameTime, deltaTime, probe>>

\* restart with the grid left as the last game left it.
GridRestartKeepingGrid ==
    /\ engine = "grid"
    /\ pc \in {"idle", "bench"}
    /\ restarts < MaxRestarts
    /\ ticks < MaxTicks
    /\ restarts' = restarts + 1
    /\ gameOver' = noPanel
    /\ \E jit \in [1 .. 4 -> IntervalJitter] :
          LET g == initializeGame(now, jit)
          IN  /\ players' = g.players
              /\ gameRunning' = g.gameRunning
              /\ gameStartTime' = g.gameStartTime
              /\ scores' = g.scores
    /\ UNCHANGED <<engine, grid, now, pc, cur, ticks, turns, keys, lastFrameTime,
                   deltaTime, probe>>

\* PaperIOGame.restart
GridRestart ==
    /\ engine = "grid"
    /\ pc \in {"idle", "bench"}
    /\ restarts < MaxRestarts
    /\ ticks < MaxTicks
    /\ restarts' = restarts + 1
    /\ gameOver' = noPanel
    /\ \E jit \in [1 .. 4 -> IntervalJitter] :
          LET g == initializeGame(now, jit)
          IN  /\ players' = g.players
              /\ grid' = g.grid
              /\ gameRunning' = g.gameRunning
              /\ gameStartTime' = g.gameStartTime
              /\ scores' = g.scores
    /\ UNCHANGED <<engine, now, pc, cur, ticks, turns, keys, lastFrameTime, deltaTime, probe>>

NextGrid ==
    \/ \E key \in Keys : GridKeyDown(key, MaxTicks)
    \/ \E dt \in FrameDeltas : GridGameLoop(dt, MaxTicks)
    \/ GridUpdatePlayer
    \/ GridCheckGameEnd
    \/ GridRestart

\* Regular play: every frame one in which all four players are due, and no
\* restart.
NextDeep ==
    \/ \E key \in Keys : GridKeyDown(key, GridTicks)
    \/ GridGameLoop(250, GridTicks)
    \/ GridUpdatePlayer
    \/ GridCheckGameEnd

SpecDeep == InitGridSteady /\ [][NextDeep]_vars

\* ============================================================= Continuous
\* ------------------------------------------------------------------ bounds
\* The canvas of the Continuous engine in pixels (declared by the host page).
canvasWidth == 800
canvasHeight == 600
\* Arrow keys held down at the same time.
MaxHeld == 1

\* -------------------------------------------------------- program constants
playerSpeed == 120
aiSpeed == 100
playerSize == 8

\* Wall-clock time between two animation frames, in ms.  Positions are whole
\* pixels: speed * deltaTime is a whole number for every delta here.
SmoothDeltas == {500, 10000, gameTimeLimit}

smoothStartPositions == <<Pos(100, 100), Pos(700, 100), Pos(100, 500), Pos(700, 500)>>

\* Math.cos(angle) * radius and Math.sin(angle) * radius for the 16 segments of
\* createInitialTerritory (radius 40), to the nearest pixel.
circleOffsets ==
    <<Pos(40, 0), Pos(37, 15), Pos(28, 28), Pos(15, 37),
      Pos(0, 40), Pos(-15, 37), Pos(-28, 28), Pos(-37, 15),
      Pos(-40, 0), Pos(-37, -15), Pos(-28, -28), Pos(-15, -37),
      Pos(0, -40), Pos(15, -37), Pos(28, -28), Pos(37, -15)>>

\* SmoothPaperIOGame.createInitialTerritory: player.territory = [points]
createInitialTerritory(px, py) ==
    <<[i \in 1 .. 16 |-> Pos(px + circleOffsets[i].x, py + circleOffsets[i].y)]>>

Sq(a) == a * a

\* Math.floor(Math.sqrt(n)) by bisection: lo * lo <= n < hi * hi.
RECURSIVE ISqrtIn(_, _, _)
ISqrtIn(n, lo, hi) ==
    IF hi - lo <= 1 THEN lo
    ELSE LET mid == (lo + hi) \div 2
         IN  IF mid * mid <= n THEN ISqrtIn(n, mid, hi) ELSE ISqrtIn(n, lo, mid)

ISqrt(n) == ISqrtIn(n, 0, 46341)

\* The test of one edge (polygon[i], polygon[j]) in isPointInPolygon.  The
\* division by (pj.y - pi.y) is cleared by multiplying through, the sign of the
\* divisor deciding the sense of the comparison.
edgeCrosses(x, y, pi, pj) ==
    /\ (pi.y > y) # (pj.y > y)
    /\ IF pj.y > pi.y
       THEN (x - pi.x) * (pj.y - pi.y) < (pj.x - pi.x) * (y - pi.y)
       ELSE (x - pi.x) * (pj.y - pi.y) > (pj.x - pi.x) * (y - pi.y)

\* SmoothPaperIOGame.isPointInPolygon: `inside' is toggled once per crossing.
isPointInPolygon(x, y, polygon) ==
    LET n == Len(polygon)
    IN  Cardinality({i \in 1 .. n :
            edgeCrosses(x, y, polygon[i], polygon[IF i = 1 THEN n ELSE i - 1])}) % 2 = 1

\* SmoothPaperIOGame.isInTerritory
isInTerritory(p, x, y) ==
    \E t \in DOMAIN p.territory : isPointInPolygon(x, y, p.territory[t])

\* SmoothPaperIOGame.distanceToLineSegment, compared with a threshold: the
\* distance from (px, py) to the segment p1 p2 is below threshold.  Squares are
\* compared; a point farther from p1 than the segment is long plus the
\* threshold is decided before the products are formed.
distanceToLineSegmentBelow(px, py, p1, p2, threshold) ==
    LET dx == p2.x - p1.x
        dy == p2.y - p1.y
        len2 == dx * dx + dy * dy
        d1 == Sq(px - p1.x) + Sq(py - p1.y)
        num == (px - p1.x) * dx + (py - p1.y) * dy
    IN  IF len2 = 0 THEN d1 < Sq(threshold)
        ELSE IF num <= 0 THEN d1 < Sq(threshold)
        ELSE IF num >= len2 THEN Sq(px - p2.x) + Sq(py - p2.y) < Sq(threshold)
        ELSE IF d1 >= len2 + Sq(threshold) THEN FALSE
        ELSE d1 * len2 - num * num < Sq(threshold) * len2

\* SmoothPaperIOGame.isPointNearTrail
isPointNearTrail(x, y, trail, threshold) ==
    \E i \in 1 .. Len(trail) - 1 :
        distanceToLineSegmentBelow(x, y, trail[i], trail[i + 1], threshold)

\* SmoothPaperIOGame.polygonArea, doubled: |sum of cross products|.
RECURSIVE shoelace(_, _)
shoelace(polygon, i) ==
    IF i > Len(polygon) THEN 0
    ELSE LET j == IF i = Len(polygon) THEN 1 ELSE i + 1
         IN  polygon[i].x * polygon[j].y - polygon[j].x * polygon[i].y
                + shoelace(polygon, i + 1)

polygonArea(polygon) ==
    LET a == shoelace(polygon, 1) IN IF a < 0 THEN -a ELSE a

\* SmoothPaperIOGame.calculateTerritoryArea, doubled.
RECURSIVE calculateTerritoryArea(_)
calculateTerritoryArea(territories) ==
    IF territories = <<>> THEN 0
    ELSE polygonArea(Head(territories)) + calculateTerritoryArea(Tail(territories))

\* ((area / totalArea) * 100).toFixed(1) in tenths of a percent, from the
\* doubled area.
AreaPercentage(area2) ==
    (1000 * area2 + canvasWidth * canvasHeight) \div (2 * canvasWidth * canvasHeight)

\* SmoothPaperIOGame.updateScores: one row per player, in array order.
smoothUpdateScores(ps) ==
    [k \in DOMAIN ps |->
        [id |-> ps[k].id,
         area |-> calculateTerritoryArea(ps[k].territory),
         percentage |-> AreaPercentage(calculateTerritoryArea(ps[k].territory)),
         alive |-> ps[k].alive]]

\* One iteration of the loop of SmoothPaperIOGame.initializeGame.
smoothNewPlayer(i) ==
    [id |-> i + 1,
     x |-> smoothStartPositions[i + 1].x,
     y |-> smoothStartPositions[i + 1].y,
     direction |-> ZeroDir,
     trail |-> <<>>,
     territory |-> createInitialTerritory(smoothStartPositions[i + 1].x,
                                          smoothStartPositions[i + 1].y),
     alive |-> TRUE,
     isHuman |-> (i = 0),
     speed |-> IF i = 0 THEN playerSpeed ELSE aiSpeed,
     lastDirectionChange |-> 0]

\* closeTrail with the new polygon put in the place of the list.
closeTrailReplacing(w, k) ==
    LET p == w.players[k]
        closed == Append(p.trail, Pos(p.x, p.y))
        ps == [w.players EXCEPT ![k].territory = <<closed>>, ![k].trail = <<>>]
    IN  IF Len(p.trail) < 3
        THEN [w EXCEPT !.players[k].trail = <<>>]
        ELSE [w EXCEPT !.players = ps, !.scores = smoothUpdateScores(ps)]

\* closeTrail with the test of the length of the trail left out.
closeTrailOfAnyLength(w, k) ==
    LET p == w.players[k]
        closed == Append(p.trail, Pos(p.x, p.y))
        ps == [w.players EXCEPT ![k].territory = Append(p.territory, closed),
                                ![k].trail = <<>>]
    IN  [w EXCEPT !.players = ps, !.scores = smoothUpdateScores(ps)]

\* SmoothPaperIOGame.closeTrail on the world w = [players, scores].
\* findTerritoryConnection always returns a point, so the trail is appended.
closeTrail(w, k) ==
    LET p == w.players[k]
        closed == Append(p.trail, Pos(p.x, p.y))
        ps == [w.players EXCEPT ![k].territory = Append(p.territory, closed),
                                ![k].trail = <<>>]
    IN  IF Len(p.trail) < 3
        THEN [w EXCEPT !.players[k].trail = <<>>]
        ELSE [w EXCEPT !.players = ps, !.scores = smoothUpdateScores(ps)]

\* SmoothPaperIOGame.eliminatePlayer
smoothEliminatePlayer(w, k) ==
    LET ps == [w.players EXCEPT ![k].alive = FALSE, ![k].trail = <<>>,
                                ![k].direction = ZeroDir]
    IN  [w EXCEPT !.players = ps, !.scores = smoothUpdateScores(ps)]

\* SmoothPaperIOGame.updatePlayers, one iteration of the loop; dms is deltaTime
\* in ms.
smoothUpdatePlayer(w, k, dms) ==
    LET p == w.players[k]
        newX == p.x + p.direction.x * ((p.speed * dms) \div 1000)
        newY == p.y + p.direction.y * ((p.speed * dms) \div 1000)
        moved == [w EXCEPT !.players[k].x = newX, !.players[k].y = newY]
    IN  IF ~ p.alive \/ (p.direction.x = 0 /\ p.direction.y = 0) THEN w
        ELSE IF ~ isInTerritory(p, newX, newY)
             THEN IF Sq(newX - p.x) + Sq(newY - p.y) > 4
                  THEN [moved EXCEPT !.players[k].trail = Append(p.trail, Pos(p.x, p.y))]
                  ELSE moved
             ELSE IF Len(p.trail) > 0 THEN closeTrail(moved, k)
             ELSE moved

RECURSIVE smoothUpdatePlayers(_, _, _)
smoothUpdatePlayers(w, k, dms) ==
    IF k > Len(w.players) THEN w
    ELSE smoothUpdatePlayers(smoothUpdatePlayer(w, k, dms), k + 1, dms)

\* checkCollision with the test of the canvas bounds left out.
checkCollisionAnywhere(w, k) ==
    LET ps == w.players
        p == ps[k]
        hitOther == \E o \in DOMAIN ps :
                        /\ ps[o].id # p.id
                        /\ ps[o].alive
                        /\ isPointNearTrail(p.x, p.y, ps[o].trail, playerSize)
        w1 == IF hitOther THEN smoothEliminatePlayer(w, k) ELSE w
        p1 == w1.players[k]
        hitOwn == /\ Len(p1.trail) > 10
                  /\ isPointNearTrail(p1.x, p1.y,
                        SubSeq(p1.trail, 1, Len(p1.trail) - 5), playerSize)
    IN  IF ~ p.alive THEN w
        ELSE IF hitOwn THEN smoothEliminatePlayer(w1, k)
        ELSE w1

\* SmoothPaperIOGame.checkCollisions, one iteration of the loop.
checkCollision(w, k) ==
    LET ps == w.players
        p == ps[k]
        hitOther == \E o \in DOMAIN ps :
                        /\ ps[o].id # p.id
                        /\ ps[o].alive
                        /\ isPointNearTrail(p.x, p.y, ps[o].trail, playerSize)
        w1 == IF hitOther THEN smoothEliminatePlayer(w, k) ELSE w
        p1 == w1.players[k]
        hitOwn == /\ Len(p1.trail) > 10
                  /\ isPointNearTrail(p1.x, p1.y,
                        SubSeq(p1.trail, 1, Len(p1.trail) - 5), playerSize)
    IN  IF ~ p.alive THEN w
        ELSE IF p.x < 0 \/ p.x > canvasWidth \/ p.y < 0 \/ p.y > canvasHeight
             THEN smoothEliminatePlayer(w, k)
        ELSE IF hitOwn THEN smoothEliminatePlayer(w1, k)
        ELSE w1

\* checkCollisions with every player from k on tested against the trails as
\* they were when the pass began.
checkCollisionsAtOnce(w, k) ==
    LET ps == [i \in DOMAIN w.players |->
                 IF i >= k THEN checkCollision(w, i).players[i] ELSE w.players[i]]
    IN  [w EXCEPT !.players = ps,
                  !.scores = IF ps = w.players THEN w.scores
                             ELSE smoothUpdateScores(ps)]

\* SmoothPaperIOGame.checkCollisions, the loop from players[k] on.
RECURSIVE checkCollisions(_, _)
checkCollisions(w, k) ==
    IF k > Len(w.players) THEN w
    ELSE checkCollisions(checkCollision(w, k), k + 1)

\* SmoothPaperIOGame.isPositionSafe
isPositionSafe(ps, k, x, y) ==
    IF x < 10 \/ x > canvasWidth - 10 \/ y < 10 \/ y > canvasHeight - 10 THEN FALSE
    ELSE IF \E o \in DOMAIN ps :
               /\ ps[o].id # ps[k].id
               /\ ps[o].alive
               /\ isPointNearTrail(x, y, ps[o].trail, 15)
         THEN FALSE
    ELSE ~ isPointNearTrail(x, y, ps[k].trail, 10)

\* SmoothPaperIOGame.isAIInDanger
isAIInDanger(ps, k) ==
    ~ isPositionSafe(ps, k, ps[k].x + ps[k].direction.x * 30,
                            ps[k].y + ps[k].direction.y * 30)

\* The score findBestAIDirection gives a direction, in thousandths: for every
\* other player min(distance / 100, 1), and near an edge
\* 1 - distanceToCenter / 400.
RECURSIVE awayFromOthers(_, _, _, _, _)
awayFromOthers(ps, k, testX, testY, o) ==
    IF o > Len(ps) THEN 0
    ELSE LET d2 == Sq(testX - ps[o].x) + Sq(testY - ps[o].y)
             term == IF ps[o].id = ps[k].id THEN 0
                     ELSE IF d2 >= 10000 THEN 1000
                     ELSE ISqrt(100 * d2)
         IN  term + awayFromOthers(ps, k, testX, testY, o + 1)

directionScore(ps, k, dir) ==
    LET testX == ps[k].x + dir.x * 100
        testY == ps[k].y + dir.y * 100
        c2 == Sq(testX - canvasWidth \div 2) + Sq(testY - canvasHeight \div 2)
    IN  awayFromOthers(ps, k, testX, testY, 1)
          + (IF testX < 50 \/ testX > canvasWidth - 50
                \/ testY < 50 \/ testY > canvasHeight - 50
             THEN 1000 - ISqrt((25 * c2) \div 4)
             ELSE 0)

\* SmoothPaperIOGame.findBestAIDirection: the loop from entry n on, with the
\* best direction so far (found = FALSE for null) and its score.
RECURSIVE findBestAIDirection(_, _, _, _, _)
findBestAIDirection(ps, k, dirs, n, best) ==
    IF n > Len(dirs) THEN best
    ELSE LET s == directionScore(ps, k, dirs[n])
         IN  findBestAIDirection(ps, k, dirs, n + 1,
                IF s > best.score
                THEN [found |-> TRUE, direction |-> dirs[n], score |-> s]
                ELSE best)

\* SmoothPaperIOGame.updateAIDirection: the directions it can leave the player
\* with (more than one only where Math.random() decides).
updateAIDirection(ps, k) ==
    LET p == ps[k]
        isSafe(d) == /\ ~ (d.x = -p.direction.x /\ d.y = -p.direction.y)
                     /\ isPositionSafe(ps, k, p.x + d.x * 50, p.y + d.y * 50)
        safe == SelectSeq(directions, isSafe)
        best == findBestAIDirection(ps, k, safe, 1,
                    [found |-> FALSE, direction |-> ZeroDir, score |-> -1000])
    IN  IF Len(safe) > 0
        THEN IF best.found THEN {best.direction}
             ELSE {safe[n] : n \in DOMAIN safe}
        ELSE IF Len(p.trail) = 0 THEN {directions[n] : n \in DOMAIN directions}
        ELSE {p.direction}

\* SmoothPaperIOGame.updateAI, one iteration of the loop at clock reading t: the
\* outcomes [direction, lastDirectionChange] the draws of Math.random() allow.
\* The timer test t - lastDirectionChange > 1000 + Math.random() * 2000 can
\* hold when more than 1000 ms have passed and can fail when fewer than 3000.
aiOutcomes(ps, k, t) ==
    LET p == ps[k]
        e == t - p.lastDirectionChange
        fires == {f \in BOOLEAN : (f => e > 1000) /\ (~ f => e < 3000)}
        kept == [direction |-> p.direction, lastDirectionChange |-> p.lastDirectionChange]
        timed(f) == IF f
                    THEN {[direction |-> d, lastDirectionChange |-> t] :
                             d \in updateAIDirection(ps, k)}
                    ELSE {kept}
        danger(o) == LET ps1 == [ps EXCEPT ![k].direction = o.direction]
                     IN  IF isAIInDanger(ps1, k)
                         THEN {[direction |-> d, lastDirectionChange |-> t] :
                                  d \in updateAIDirection(ps1, k)}
                         ELSE {o}
    IN  IF ~ p.alive \/ p.isHuman THEN {kept}
        ELSE UNION {danger(o) : o \in UNION {timed(f) : f \in fires}}

\* SmoothPaperIOGame.updateAI: the players arrays the loop can end with, from
\* player k on.
RECURSIVE smoothUpdateAI(_, _, _)
smoothUpdateAI(ps, k, t) ==
    IF k > Len(ps) THEN {ps}
    ELSE UNION {smoothUpdateAI([ps EXCEPT ![k].direction = o.direction,
                                          ![k].lastDirectionChange = o.lastDirectionChange],
                               k + 1, t) : o \in aiOutcomes(ps, k, t)}

\* SmoothPaperIOGame.showGameOver: a copy of the array is sorted.
smoothShowGameOver(ps) ==
    LET keyed == SortDesc([k \in DOMAIN ps |->
                     [key |-> calculateTerritoryArea(ps[k].territory), item |-> ps[k]]])
    IN  [shown |-> TRUE,
         ranking |-> [r \in DOMAIN keyed |->
                        [id |-> keyed[r].item.id,
                         area |-> keyed[r].key,
                         percentage |-> AreaPercentage(keyed[r].key)]],
         humanWon |-> keyed[1].item.isHuman]

\* handleInput with the test of the current direction left out.
handleInputUnguarded(d, held) ==
    IF held["ArrowUp"] THEN Dir(0, -1)
    ELSE IF held["ArrowDown"] THEN Dir(0, 1)
    ELSE IF held["ArrowLeft"] THEN Dir(-1, 0)
    ELSE IF held["ArrowRight"] THEN Dir(1, 0)
    ELSE d

\* SmoothPaperIOGame.handleInput, the chain over the held keys.
handleInput(d, held) ==
    IF held["ArrowUp"] /\ d.y # 1 THEN Dir(0, -1)
    ELSE IF held["ArrowDown"] /\ d.y # -1 THEN Dir(0, 1)
    ELSE IF held["ArrowLeft"] /\ d.x # 1 THEN Dir(-1, 0)
    ELSE IF held["ArrowRight"] /\ d.x # -1 THEN Dir(1, 0)
    ELSE d

\* SmoothPaperIOGame.initializeGame at clock reading t.
smoothInitializeGame(t) ==
    LET ps == [i \in 1 .. 4 |-> smoothNewPlayer(i - 1)]
    IN  [players |-> ps,
         gameRunning |-> TRUE,
         gameStartTime |-> t,
         lastFrameTime |-> t,
         scores |-> smoothUpdateScores(ps)]

\* SmoothPaperIOGame.checkGameEnd, the condition.
smoothGameEnds(ps, elapsed) == AliveCount(ps) <= 1 \/ elapsed >= gameTimeLimit

\* ------------------------------------------------------ Continuous actions
\* The constructor of SmoothPaperIOGame has run initializeGame and
\* setupEventListeners and enters its call of gameLoop, which has read the
\* clock: deltaTime is 0 and updatePlayers is next.
InitSmooth ==
    /\ engine = "smooth"
    /\ now = Epoch
    /\ LET g == smoothInitializeGame(Epoch)
       IN  /\ players = g.players
           /\ gameRunning = g.gameRunning
           /\ gameStartTime = g.gameStartTime
           /\ lastFrameTime = g.lastFrameTime
           /\ scores = g.scores
    /\ grid = <<>>
    /\ gameOver = noPanel
    /\ pc = "update"
    /\ cur = 0
    /\ keys = noKeys
    /\ deltaTime = 0
    /\ ticks = 0
    /\ turns = 0
    /\ restarts = 0
    /\ probe = noProbe

\* The keydown listener of SmoothPaperIOGame.setupEventListeners: the key is
\* marked held, then handleInput runs.  Keys other than the arrows are stored
\* too but never read.
SmoothKeyDown(key, limit, held) ==
    /\ engine = "smooth"
    /\ pc = "idle"
    /\ ticks < limit
    /\ key \in ArrowKeys /\ ~ keys[key]
          => Cardinality({k \in ArrowKeys : keys[k]}) < held
    /\ keys' = IF key \in ArrowKeys THEN [keys EXCEPT ![key] = TRUE] ELSE keys
    /\ players' = IF gameRunning /\ players[1].alive
                  THEN [players EXCEPT ![1].direction =
                           handleInput(players[1].direction, keys')]
                  ELSE players
    /\ UNCHANGED <<engine, grid, gameRunning, gameStartTime, now, scores,
                   gameOver, pc, cur, lastFrameTime, deltaTime, ticks, turns,
                   restarts, probe>>

\* The keyup listener.
SmoothKeyUp(key, limit) ==
    /\ engine = "smooth"
    /\ pc = "idle"
    /\ ticks < limit
    /\ key \in ArrowKeys
    /\ keys[key]
    /\ keys' = [keys EXCEPT ![key] = FALSE]
    /\ UNCHANGED <<engine, players, grid, gameRunning, gameStartTime, now,
                   scores, gameOver, pc, cur, lastFrameTime, deltaTime, ticks,
                   turns, restarts, probe>>

\* SmoothPaperIOGame.gameLoop, entry: an animation frame dt ms after the last
\* clock reading.
SmoothGameLoop(dt, limit) ==
    /\ engine = "smooth"
    /\ pc = "idle"
    /\ ticks < limit
    /\ ticks' = ticks + 1
    /\ now' = now + dt
    /\ deltaTime' = now' - lastFrameTime
    /\ lastFrameTime' = now'
    /\ pc' = IF gameRunning THEN "update" ELSE "idle"
    /\ UNCHANGED <<engine, players, grid, gameRunning, gameStartTime, scores,
                   gameOver, cur, keys, turns, restarts, probe>>

\* SmoothPaperIOGame.updatePlayers
SmoothUpdatePlayers ==
    /\ engine = "smooth"
    /\ pc = "update"
    /\ pc' = "collide"
    /\ \E w \in {smoothUpdatePlayers([players |-> players, scores |-> scores],
                                     1, deltaTime)} :
          /\ players' = w.players
          /\ scores' = w.scores
    /\ UNCHANGED <<engine, grid, gameRunning, gameStartTime, now, gameOver, cur,
                   keys, lastFrameTime, deltaTime, ticks, turns, restarts, probe>>

\* SmoothPaperIOGame.checkCollisions
SmoothCheckCollisions ==
    /\ engine = "smooth"
    /\ pc = "collide"
    /\ pc' = "ai"
    /\ \E w \in {checkCollisions([players |-> players, scores |-> scores], 1)} :
          /\ players' = w.players
          /\ scores' = w.scores
    /\ UNCHANGED <<engine, grid, gameRunning, gameStartTime, now, gameOver, cur,
                   keys, lastFrameTime, deltaTime, ticks, turns, restarts, probe>>

\* SmoothPaperIOGame.updateAI
SmoothUpdateAI ==
    /\ engine = "smooth"
    /\ pc = "ai"
    /\ pc' = "end"
    /\ \E ps \in smoothUpdateAI(players, 1, now) : players' = ps
    /\ UNCHANGED <<engine, grid, gameRunning, gameStartTime, now, scores,
                   gameOver, cur, keys, lastFrameTime, deltaTime, ticks, turns,
                   restarts, probe>>

\* SmoothPaperIOGame.checkGameEnd (with showGameOver), the last step of the
\* frame that changes state; updateTimer and render only draw.
SmoothCheckGameEnd ==
    /\ engine = "smooth"
    /\ pc = "end"
    /\ pc' = "idle"
    /\ IF smoothGameEnds(players, now - gameStartTime)
       THEN /\ gameRunning' = FALSE
            /\ gameOver' = smoothShowGameOver(players)
       ELSE UNCHANGED <<gameRunning, gameOver>>
    /\ UNCHANGED <<engine, players, grid, gameStartTime, now, scores, cur, keys,
                   lastFrameTime, deltaTime, ticks, turns, restarts, probe>>

\* SmoothPaperIOGame.restart
SmoothRestart ==
    /\ engine = "smooth"
    /\ pc \in {"idle", "bench"}
    /\ restarts < MaxRestarts
    /\ ticks < MaxTicks
    /\ restarts' = restarts + 1
    /\ gameOver' = noPanel
    /\ LET g == smoothInitializeGame(now)
       IN  /\ players' = g.players
           /\ gameRunning' = g.gameRunning
           /\ gameStartTime' = g.gameStartTime
           /\ lastFrameTime' = g.lastFrameTime
           /\ scores' = g.scores
    /\ UNCHANGED <<engine, grid, now, pc, cur, keys, deltaTime, ticks, turns, probe>>

NextSmooth ==
    \/ \E key \in Keys : SmoothKeyDown(key, MaxTicks, MaxHeld)
    \/ \E key \in ArrowKeys : SmoothKeyUp(key, MaxTicks)
    \/ \E dt \in SmoothDeltas : SmoothGameLoop(dt, MaxTicks)
    \/ SmoothUpdatePlayers
    \/ SmoothCheckCollisions
    \/ SmoothUpdateAI
    \/ SmoothCheckGameEnd
    \/ SmoothRestart

\* Regular play: every frame 500 ms after the last, and no restart.
NextSmoothDeep ==
    \/ \E key \in Keys : SmoothKeyDown(key, DeepTicks, MaxHeld)
    \/ \E key \in ArrowKeys : SmoothKeyUp(key, DeepTicks)
    \/ SmoothGameLoop(500, DeepTicks)
    \/ SmoothUpdatePlayers
    \/ SmoothCheckCollisions
    \/ SmoothUpdateAI
    \/ SmoothCheckGameEnd

\* ============================================================ both engines
Init == InitGrid \/ InitSmooth

\* Stalled frames and restarts.
Next == NextGrid \/ NextSmooth

Spec == Init /\ [][Next]_vars

\* Regular play.
NextPlay == NextDeep \/ NextSmoothDeep

InitPlay == InitGridSteady \/ InitSmooth

SpecPlay == InitPlay /\ [][NextPlay]_vars

\* The keyboard: any set of arrow keys held, around KeyTicks frames of regular
\* play.
NextKeys ==
    \/ \E key \in Keys : GridKeyDown(key, KeyTicks)
    \/ GridGameLoop(250, KeyTicks)
    \/ GridUpdatePlayer
    \/ GridCheckGameEnd
    \/ \E key \in Keys : SmoothKeyDown(key, KeyTicks, Cardinality(ArrowKeys))
    \/ \E key \in ArrowKeys : SmoothKeyUp(key, KeyTicks)
    \/ SmoothGameLoop(500, KeyTicks)
    \/ SmoothUpdatePlayers
    \/ SmoothCheckCollisions
    \/ SmoothUpdateAI
    \/ SmoothCheckGameEnd

SpecKeys == Init /\ [][NextKeys]_vars

\* =========================================== the Grid board functions alone
\* floodFillTerritory and isValidMove are functions of the board and the
\* players.  Here they are applied to boards and players drawn by hand: the
\* board initializeGame builds, then up to a bounded number of edits, each
\* giving a cell an owner, a player one more trail cell, or a player a false
\* alive flag.  probe records the last application.

\* The cells the edits touch: the column between the starting squares and the
\* cells beside it, below the top rows.
BenchCells ==
    {c \in (0 .. mapWidth - 1) \X (0 .. mapHeight - 1) :
        c[1] >= 2 /\ c[1] <= mapWidth - 3 /\ c[2] >= 2}
\* The players the edits and the applications are about.
BenchPlayers == {1, 2}
\* The cells isValidMove is asked about: the edited cells and one cell beyond
\* each edge of the board.
ProbeCells ==
    BenchCells \cup {<<-1, 3>>, <<3, -1>>, <<mapWidth, 3>>, <<3, mapHeight>>}

InitBench ==
    /\ engine = "grid"
    /\ now = Epoch
    /\ \E jit \in [1 .. 4 -> IntervalJitter] :
          LET g == initializeGame(Epoch, jit)
          IN  /\ players = g.players
              /\ grid = g.grid
              /\ gameRunning = g.gameRunning
              /\ gameStartTime = g.gameStartTime
              /\ scores = g.scores
    /\ gameOver = noPanel
    /\ pc = "bench"
    /\ cur = 0
    /\ keys = noKeys
    /\ lastFrameTime = 0
    /\ deltaTime = 0
    /\ ticks = 0
    /\ turns = 0
    /\ restarts = 0
    /\ probe = noProbe

\* Cell (x, y) gets owner players[k].id, as a claim by that player writes it:
\* into the grid and into the player's territory set.
BenchOwn(x, y, k, limit) ==
    /\ engine = "grid"
    /\ pc = "bench"
    /\ gameRunning
    /\ probe.edits < limit
    /\ grid[y][x] # players[k].id
    /\ grid' = [grid EXCEPT ![y][x] = players[k].id]
    /\ players' = [players EXCEPT ![k].territory = @ \cup {Key(x, y)}]
    /\ probe' = [op |-> "own", edits |-> probe.edits + 1]
    /\ UNCHANGED <<engine, gameRunning, gameStartTime, now, scores, gameOver,
                   pc, cur, keys, lastFrameTime, deltaTime, ticks, turns,
                   restarts>>

\* Player k gets one more trail cell.
BenchTrail(x, y, k, limit) ==
    /\ engine = "grid"
    /\ pc = "bench"
    /\ gameRunning
    /\ probe.edits < limit
    /\ players' = [players EXCEPT ![k].trail = Append(@, Pos(x, y))]
    /\ probe' = [op |-> "trail", edits |-> probe.edits + 1]
    /\ UNCHANGED <<engine, grid, gameRunning, gameStartTime, now, scores,
                   gameOver, pc, cur, keys, lastFrameTime, deltaTime, ticks,
                   turns, restarts>>

\* Player k gets a false alive flag, its trail left as it is.
BenchDead(k, limit) ==
    /\ engine = "grid"
    /\ pc = "bench"
    /\ gameRunning
    /\ probe.edits < limit
    /\ players[k].alive
    /\ players' = [players EXCEPT ![k].alive = FALSE]
    /\ probe' = [op |-> "dead", edits |-> probe.edits + 1]
    /\ UNCHANGED <<engine, grid, gameRunning, gameStartTime, now, scores,
                   gameOver, pc, cur, keys, lastFrameTime, deltaTime, ticks,
                   turns, restarts>>

\* PaperIOGame.floodFillTerritory(players[k]) is applied; probe keeps the grid
\* it started from.
BenchFloodFill(k) ==
    /\ engine = "grid"
    /\ pc = "bench"
    /\ probe.op # "fill"
    /\ \E f \in {floodFillTerritory(grid, players[k].territory, players[k].id)} :
          /\ grid' = f.grid
          /\ players' = [players EXCEPT ![k].territory = f.territory]
    /\ probe' = [op |-> "fill", edits |-> probe.edits, id |-> players[k].id,
                 before |-> grid]
    /\ UNCHANGED <<engine, gameRunning, gameStartTime, now, scores, gameOver,
                   pc, cur, keys, lastFrameTime, deltaTime, ticks, turns,
                   restarts>>

\* PaperIOGame.isValidMove(players[k], x, y) is applied; probe keeps the
\* arguments and the result.
BenchIsValidMove(x, y, k) ==
    /\ engine = "grid"
    /\ pc = "bench"
    /\ probe' = [op |-> "isValidMove", edits |-> probe.edits, k |-> k,
                 x |-> x, y |-> y,
                 result |-> isValidMove(players, grid, k, x, y)]
    /\ UNCHANGED <<engine, players, grid, gameRunning, gameStartTime, now,
                   scores, gameOver, pc, cur, keys, lastFrameTime, deltaTime,
                   ticks, turns, restarts>>

NextFill ==
    \/ \E c \in BenchCells, k \in BenchPlayers : BenchOwn(c[1], c[2], k, MaxPaint)
    \/ \E k \in BenchPlayers : BenchFloodFill(k)

SpecFill == InitBench /\ [][NextFill]_vars

NextValid ==
    \/ \E c \in BenchCells, k \in BenchPlayers : BenchOwn(c[1], c[2], k, MaxEdits)
    \/ \E c \in BenchCells, k \in BenchPlayers : BenchTrail(c[1], c[2], k, MaxEdits)
    \/ \E k \in BenchPlayers : BenchDead(k, MaxEdits)
    \/ \E c \in ProbeCells, k \in BenchPlayers : BenchIsValidMove(c[1], c[2], k)

SpecValid == InitBench /\ [][NextValid]_vars

\* ============================================ one Grid player at a time
\* updatePlayers treats each player on its own.  Here a board and players
\* drawn by hand come first, then key-downs and single iterations of the loop
\* of updatePlayers, each for one player and at a later clock reading.  probe
\* keeps the player served and the players array the iteration started from.

\* The iterations of one behaviour, and the edits before them.
MaxSteps == 3
StepEdits == 2
\* The cells the edits touch: the cell halfway between the starts of players
\* 1 and 2, and the four cells beside it.
StepCells ==
    LET mx == (startPositions[1].x + startPositions[2].x) \div 2
        my == startPositions[1].y
    IN  {<<mx, my>>, <<mx - 1, my>>, <<mx + 1, my>>, <<mx, my - 1>>, <<mx, my + 1>>}
\* The time between two iterations: no move interval is longer.
StepDeltas == {250}

\* The keydown listener, between two iterations.
BenchKeyDown(key) ==
    /\ engine = "grid"
    /\ pc = "bench"
    /\ players' = keydown(players, gameRunning, key)
    /\ probe' = [op |-> "key", edits |-> probe.edits]
    /\ UNCHANGED <<engine, grid, gameRunning, gameStartTime, now, scores,
                   gameOver, pc, cur, keys, lastFrameTime, deltaTime, ticks,
                   turns, restarts>>

\* One iteration of the loop of updatePlayers for players[k], dt ms after the
\* last clock reading.
BenchStep(k, dt) ==
    /\ engine = "grid"
    /\ pc = "bench"
    /\ gameRunning
    /\ ticks < MaxSteps
    /\ ticks' = ticks + 1
    /\ now' = now + dt
    /\ \E w0 \in {[players |-> players, grid |-> grid, scores |-> scores,
                    turns |-> turns]} :
       \E draw \in playerDraws(w0, k, now + dt) :
       \E w \in {updatePlayer(w0, k, now + dt, draw)} :
          /\ players' = w.players
          /\ grid' = w.grid
          /\ scores' = w.scores
          /\ turns' = w.turns
    /\ probe' = [op |-> "step", edits |-> probe.edits, k |-> k, before |-> players]
    /\ UNCHANGED <<engine, gameRunning, gameStartTime, gameOver, pc, cur, keys,
                   lastFrameTime, deltaTime, restarts>>

NextStep ==
    \/ /\ ticks = 0
       /\ \/ \E c \in StepCells, k \in BenchPlayers :
                BenchOwn(c[1], c[2], k, StepEdits)
          \/ \E c \in StepCells, k \in BenchPlayers :
                BenchTrail(c[1], c[2], k, StepEdits)
    \/ \E key \in ArrowKeys : BenchKeyDown(key)
    \/ \E k \in BenchPlayers, dt \in StepDeltas : BenchStep(k, dt)

SpecStep == InitBench /\ [][NextStep]_vars

\* ========================================= one Continuous player at a time
\* updatePlayers treats each player on its own.  Here one iteration of its
\* loop, followed by the iteration of checkCollisions for the same player, is
\* applied to one player at a time, with the direction and the frame time
\* drawn by hand.  probe records the player before and after the iteration of
\* updatePlayers.

\* Iterations per behaviour.
MaxWalk == 5
\* Iterations per behaviour before a hand-drawn game ends.
OverWalk == 4
\* Frame times in ms.
WalkDeltas == {200, 500}
\* The players walked: the human and one AI.
WalkPlayers == {1, 2}

InitWalk ==
    /\ engine = "smooth"
    /\ now = Epoch
    /\ LET g == smoothInitializeGame(Epoch)
       IN  /\ players = g.players
           /\ gameRunning = g.gameRunning
           /\ gameStartTime = g.gameStartTime
           /\ lastFrameTime = g.lastFrameTime
           /\ scores = g.scores
    /\ grid = <<>>
    /\ gameOver = noPanel
    /\ pc = "bench"
    /\ cur = 0
    /\ keys = noKeys
    /\ deltaTime = 0
    /\ ticks = 0
    /\ turns = 0
    /\ restarts = 0
    /\ probe = noProbe

\* players[k] takes direction d (never the reverse of the one it has), then
\* the body of the loop of updatePlayers and that of checkCollisions run for it.
BenchWalk(k, d, dms, limit) ==
    /\ engine = "smooth"
    /\ pc = "bench"
    /\ gameRunning
    /\ probe.edits < limit
    /\ players[k].alive
    /\ ~ (d.x = -players[k].direction.x /\ d.y = -players[k].direction.y)
    /\ LET w0 == [players |-> [players EXCEPT ![k].direction = d],
                  scores |-> scores]
       IN  \E w1 \in {smoothUpdatePlayer(w0, k, dms)} :
           \E w2 \in {checkCollision(w1, k)} :
              /\ players' = w2.players
              /\ scores' = w2.scores
              /\ probe' = [op |-> "walk", edits |-> probe.edits + 1,
                           before |-> w0.players[k], after |-> w1.players[k]]
    /\ UNCHANGED <<engine, grid, gameRunning, gameStartTime, now, gameOver, pc,
                   cur, keys, lastFrameTime, deltaTime, ticks, turns, restarts>>

NextWalk ==
    \E k \in WalkPlayers, n \in DOMAIN directions, dms \in WalkDeltas :
       BenchWalk(k, directions[n], dms, MaxWalk)

SpecWalk == InitWalk /\ [][NextWalk]_vars

\* ============================================ one collision pass at a time
\* checkCollisions is a function of the positions and the trails.  Here living
\* players are put on points drawn by hand, and points are added to their
\* trails; then the whole pass runs.  probe keeps the players array the pass
\* started from.

\* The edits of one behaviour.
PassEdits == 4
\* The players the edits are about.
PassPlayers == {1, 2}
\* The points: the two ends of a segment in the middle of the canvas; points
\* at distance 5, playerSize and 50 of it; and a point beyond the right edge.
PassPoints ==
    LET cx == canvasWidth \div 2
        cy == canvasHeight \div 2
    IN  {Pos(cx, cy), Pos(cx, cy + 40), Pos(cx + 5, cy + 20),
         Pos(cx + playerSize, cy + 20), Pos(cx + 50, cy + 20),
         Pos(canvasWidth + 10, cy + 20)}

\* The points a trail is drawn from: trail points are positions living
\* players have left, which lie on the canvas.
PassTrailPoints == {pt \in PassPoints : pt.x <= canvasWidth}

\* players[k] stands on pt.
BenchPut(k, pt) ==
    /\ engine = "smooth"
    /\ pc = "bench"
    /\ gameRunning
    /\ probe.edits < PassEdits
    /\ players[k].alive
    /\ players' = [players EXCEPT ![k].x = pt.x, ![k].y = pt.y]
    /\ probe' = [op |-> "put", edits |-> probe.edits + 1]
    /\ UNCHANGED <<engine, grid, gameRunning, gameStartTime, now, scores,
                   gameOver, pc, cur, keys, lastFrameTime, deltaTime, ticks,
                   turns, restarts>>

\* players[k] gets one more trail point.
BenchSmoothTrail(k, pt) ==
    /\ engine = "smooth"
    /\ pc = "bench"
    /\ gameRunning
    /\ probe.edits < PassEdits
    /\ players[k].alive
    /\ players' = [players EXCEPT ![k].trail = Append(@, pt)]
    /\ probe' = [op |-> "trail", edits |-> probe.edits + 1]
    /\ UNCHANGED <<engine, grid, gameRunning, gameStartTime, now, scores,
                   gameOver, pc, cur, keys, lastFrameTime, deltaTime, ticks,
                   turns, restarts>>

\* SmoothPaperIOGame.checkCollisions is applied.
BenchPass ==
    /\ engine = "smooth"
    /\ pc = "bench"
    /\ gameRunning
    /\ probe.op # "pass"
    /\ \E w \in {checkCollisions([players |-> players, scores |-> scores], 1)} :
          /\ players' = w.players
          /\ scores' = w.scores
    /\ probe' = [op |-> "pass", edits |-> probe.edits, before |-> players]
    /\ UNCHANGED <<engine, grid, gameRunning, gameStartTime, now, gameOver, pc,
                   cur, keys, lastFrameTime, deltaTime, ticks, turns, restarts>>

NextPass ==
    \/ \E k \in PassPlayers, pt \in PassPoints : BenchPut(k, pt)
    \/ \E k \in PassPlayers, pt \in PassTrailPoints : BenchSmoothTrail(k, pt)
    \/ BenchPass

SpecPass == InitWalk /\ [][NextPass]_vars

\* ================================================== the end of a hand-drawn game
\* The end check of a tick at which the time limit has passed, applied to the
\* hand-drawn states above: checkGameEnd finds the time up and calls
\* showGameOver.  It ends the edits, which stand for the moves of a running
\* game; restart can follow it, as it can follow any edit.
GridTimeUp ==
    /\ engine = "grid"
    /\ pc = "bench"
    /\ gameRunning
    /\ now' = gameStartTime + gameTimeLimit
    /\ gameEnds(players, now' - gameStartTime)
    /\ \E over \in {showGameOver(players)} :
          /\ gameRunning' = FALSE
          /\ players' = over.players
          /\ gameOver' = over.panel
    /\ probe' = [op |-> "end", edits |-> probe.edits, before |-> players]
    /\ UNCHANGED <<engine, grid, gameStartTime, scores, pc, cur, keys,
                   lastFrameTime, deltaTime, ticks, turns, restarts>>

SmoothTimeUp ==
    /\ engine = "smooth"
    /\ pc = "bench"
    /\ gameRunning
    /\ now' = gameStartTime + gameTimeLimit
    /\ smoothGameEnds(players, now' - gameStartTime)
    /\ gameRunning' = FALSE
    /\ gameOver' = smoothShowGameOver(players)
    /\ probe' = [op |-> "end", edits |-> probe.edits, before |-> players]
    /\ UNCHANGED <<engine, players, grid, gameStartTime, scores, pc, cur, keys,
                   lastFrameTime, deltaTime, ticks, turns, restarts>>

NextOver ==
    \/ \E c \in BenchCells, k \in BenchPlayers : BenchOwn(c[1], c[2], k, MaxEdits)
    \/ \E c \in BenchCells, k \in BenchPlayers : BenchTrail(c[1], c[2], k, MaxEdits)
    \/ \E k \in BenchPlayers : BenchDead(k, MaxEdits)
    \/ \E k \in WalkPlayers, n \in DOMAIN directions :
          BenchWalk(k, directions[n], 500, OverWalk)
    \/ GridTimeUp
    \/ SmoothTimeUp
    \/ ~ gameRunning /\ \E key \in ArrowKeys : BenchKeyDown(key)

\* Games played and games drawn by hand, their ends and their restarts.
InitOver == Init \/ InitBench \/ InitWalk

SpecOver == InitOver /\ [][Next \/ NextOver]_vars

\* ========================================================= ticks that go on
\* requestAnimationFrame schedules the next tick at the end of every tick
\* (lines 106 and 578), so the start of a tick is weakly fair; and a tick,
\* single-threaded, runs to its end (TicksEnd): none of its steps waits for
\* anything.  The key listeners and restart are not fair.  The wall clock
\* advances by one of LiveDeltas between two ticks, and LiveTicks ticks are
\* more than the matches of a behaviour last.
LiveTicks == 3
LiveDeltas == {gameTimeLimit \div 2}

GridFrame == \E dt \in LiveDeltas : GridGameLoop(dt, LiveTicks)

SmoothFrame == \E dt \in LiveDeltas : SmoothGameLoop(dt, LiveTicks)

NextLive ==
    \/ \E key \in Keys : GridKeyDown(key, LiveTicks)
    \/ \E key \in Keys : SmoothKeyDown(key, LiveTicks, MaxHeld)
    \/ \E key \in ArrowKeys : SmoothKeyUp(key, LiveTicks)
    \/ GridFrame
    \/ GridUpdatePlayer
    \/ GridCheckGameEnd
    \/ SmoothFrame
    \/ SmoothUpdatePlayers
    \/ SmoothCheckCollisions
    \/ SmoothUpdateAI
    \/ SmoothCheckGameEnd
    \/ GridRestart
    \/ SmoothRestart

TicksEnd == []<>(pc = "idle")

SpecLive ==
    /\ InitPlay
    /\ [][NextLive]_vars
    /\ WF_vars(GridFrame)
    /\ WF_vars(SmoothFrame)
    /\ TicksEnd

\* ================================================================== claims
\* The player of a given id, wherever the array holds it.
ById(ps, id) == ps[CHOOSE k \in DOMAIN ps : ps[k].id = id]

Reverse(d, e) == e.x = -d.x /\ e.y = -d.y

\* A step taken by a key listener: no callback is running before or after it,
\* and neither a frame nor a restart has been counted.
KeyEventStep ==
    pc = "idle" /\ pc' = "idle" /\ ticks' = ticks /\ restarts' = restarts

\* C1: in both engines, the step that ends a tick (the end check) leaves
\* gameRunning false whenever at most one player is alive or 180000 ms or more
\* have passed since gameStartTime; and gameRunning goes from false to true
\* only in a restart.
C1_GameEnd ==
    [][ /\ (pc = "end" /\ pc' = "idle"
              /\ (AliveCount(players') <= 1 \/ now' - gameStartTime' >= 180000))
           => ~ gameRunning'
        /\ (~ gameRunning /\ gameRunning') => restarts' = restarts + 1 ]_vars

\* C1 witness: a match ended by the clock with several players alive, and one
\* more frame has passed over the ended match.
C1_Witness ==
    /\ ~ gameRunning
    /\ pc = "idle"
    /\ AliveCount(players) > 1
    /\ now - gameStartTime >= 2 * gameTimeLimit

\* C2: in both engines, in every step other than a restart, a player whose
\* alive flag is false stays not alive, keeps its position, and its trail gets
\* no longer.
C2_EliminationTerminal ==
    [][ restarts' = restarts =>
          \A id \in 1 .. 4 :
             ~ ById(players, id).alive =>
                /\ ~ ById(players', id).alive
                /\ ById(players', id).x = ById(players, id).x
                /\ ById(players', id).y = ById(players, id).y
                /\ Len(ById(players', id).trail) <= Len(ById(players, id).trail) ]_vars

\* C2 witness: the loop of updatePlayers stands at a player that was
\* eliminated in an earlier frame, in a match still running.
C2_Witness ==
    /\ engine = "grid"
    /\ pc = "players"
    /\ gameRunning
    /\ ~ players[cur].alive
    /\ players[cur].lastMoveTime < now

\* The cells of the board.
Cells == (0 .. mapWidth - 1) \X (0 .. mapHeight - 1)

OnBorder(c) ==
    c[1] = 0 \/ c[1] = mapWidth - 1 \/ c[2] = 0 \/ c[2] = mapHeight - 1

\* The unowned cells of board b joined to the set S by steps between unowned
\* cells that share a side.
RECURSIVE Spread(_, _)
Spread(b, S) ==
    LET near == {d \in Cells :
                   /\ b[d[2]][d[1]] = 0
                   /\ d \notin S
                   /\ \E c \in S :
                         \/ (d[1] = c[1] /\ (d[2] = c[2] + 1 \/ d[2] = c[2] - 1))
                         \/ (d[2] = c[2] /\ (d[1] = c[1] + 1 \/ d[1] = c[1] - 1))}
        grown == {d : d \in S \cup near}
    IN  IF near = {} THEN S ELSE Spread(b, grown)

\* C3: Grid engine.  After floodFillTerritory for player P: a cell unowned
\* when the fill started is owned by P if its 4-connected region of unowned
\* cells holds no border cell, and is still unowned if that region holds one;
\* a cell that had an owner keeps it.
C3_FloodFill ==
    probe.op = "fill" =>
       \A c \in Cells :
          LET before == probe.before[c[2]][c[1]]
              after == grid[c[2]][c[1]]
          IN  IF before # 0 THEN after = before
              ELSE IF \E d \in Spread(probe.before, {c}) : OnBorder(d)
                   THEN after = 0
                   ELSE after = probe.id

\* C3 witness: a fill has given its player a region of two cells and left
\* another unowned cell alone.
C3_Witness ==
    /\ probe.op = "fill"
    /\ \E c, d \in Cells :
          /\ c # d
          /\ probe.before[c[2]][c[1]] = 0 /\ grid[c[2]][c[1]] = probe.id
          /\ probe.before[d[2]][d[1]] = 0 /\ grid[d[2]][d[1]] = probe.id
    /\ \E c \in Cells : probe.before[c[2]][c[1]] = 0 /\ grid[c[2]][c[1]] = 0

\* C5: Grid engine.  isValidMove(player, x, y) is false exactly when (x, y) is
\* outside the board, or owned by another player, or in the player's trail, or
\* in the trail of another player whose alive flag is true; and applying it
\* changes neither the players nor the grid nor the scores.
C5_IsValidMove ==
    [][ probe'.op = "isValidMove" =>
          LET x == probe'.x
              y == probe'.y
              p == players[probe'.k]
              outside == x < 0 \/ x >= mapWidth \/ y < 0 \/ y >= mapHeight
              foreign == ~ outside /\ grid[y][x] # 0 /\ grid[y][x] # p.id
              own == TrailHas(p.trail, x, y)
              other == \E o \in DOMAIN players :
                          /\ players[o].id # p.id
                          /\ players[o].alive
                          /\ TrailHas(players[o].trail, x, y)
          IN  /\ probe'.result = ~ (outside \/ foreign \/ own \/ other)
              /\ players' = players
              /\ grid' = grid
              /\ scores' = scores ]_vars

\* C5 witness: isValidMove has accepted a cell that lies in the trail of a
\* player whose alive flag is false.
C5_Witness ==
    /\ probe.op = "isValidMove"
    /\ probe.result
    /\ \E o \in DOMAIN players :
          /\ o # probe.k
          /\ ~ players[o].alive
          /\ TrailHas(players[o].trail, probe.x, probe.y)

\* C4: Grid engine.  In one iteration of the loop of updatePlayers, the claim
\* happens exactly when the player, alive, completes a step onto a cell of its
\* territory with a non-empty trail (the trail as movePlayer tests it, the cell
\* just left included).  Then every cell of that trail is in the player's
\* territory and owned by it in the grid, and the trail is empty; otherwise the
\* player's territory and the grid are unchanged.
C4_Claim ==
    [][ (engine = "grid" /\ pc = "players") =>
          LET p == players[cur]
              q == players'[cur]
              stepped == p.alive /\ q.alive /\ (q.x # p.x \/ q.y # p.y)
              trail == IF Key(p.x, p.y) \in p.territory THEN p.trail
                       ELSE Append(p.trail, Pos(p.x, p.y))
              triggered == stepped /\ Key(q.x, q.y) \in p.territory /\ Len(trail) > 0
          IN  IF triggered
              THEN /\ \A j \in DOMAIN trail :
                         /\ Key(trail[j].x, trail[j].y) \in q.territory
                         /\ grid'[trail[j].y][trail[j].x] = p.id
                   /\ q.trail = <<>>
              ELSE /\ q.territory = p.territory
                   /\ grid' = grid ]_vars

\* C4 witness: a player has claimed: it holds more than its starting square,
\* it is alive and its trail is empty.
C4_Witness ==
    /\ engine = "grid"
    /\ \E k \in DOMAIN players :
          /\ players[k].alive
          /\ Cardinality(players[k].territory) > 9
          /\ players[k].trail = <<>>

\* C6: Grid engine.  No cell is in the territory sets of two different players.
C6_OneOwner ==
    engine = "grid" =>
       \A k1, k2 \in DOMAIN players :
          k1 # k2 => players[k1].territory \cap players[k2].territory = {}

\* C7: in every step other than a restart, for every player alive before it:
\* in the Grid engine the territory set after the step includes the one before,
\* in the Continuous engine the polygon list before the step is a prefix of the
\* one after.
C7_TerritoryGrows ==
    [][ restarts' = restarts =>
          \A id \in 1 .. 4 :
             LET p == ById(players, id)
                 q == ById(players', id)
             IN  p.alive =>
                    IF engine = "grid"
                    THEN p.territory \subseteq q.territory
                    ELSE /\ Len(q.territory) >= Len(p.territory)
                         /\ SubSeq(q.territory, 1, Len(p.territory)) = p.territory ]_vars

\* C7 witness: a Continuous player has closed a trail: its polygon list holds
\* the starting circle and one polygon more.
C7_Witness ==
    /\ engine = "smooth"
    /\ \E k \in DOMAIN players : players[k].alive /\ Len(players[k].territory) = 2

\* C8: Grid engine.  Whenever the score panel or the ranking is written, the
\* size it gives a player is the number of grid cells that player owns.
C8_ScoreIsGridCount ==
    [][ engine = "grid" =>
          /\ scores' # scores =>
                \A r \in DOMAIN scores' :
                   scores'[r].size = OwnedCells(grid', scores'[r].id)
          /\ (gameOver' # gameOver /\ gameOver'.shown) =>
                \A r \in DOMAIN gameOver'.ranking :
                   gameOver'.ranking[r].size
                      = OwnedCells(grid', gameOver'.ranking[r].id) ]_vars

\* C9: in both engines, no key event turns the human's direction, when it is
\* not zero, into its exact reverse.
C9_NoReverse ==
    [][ KeyEventStep =>
          LET d == ById(players, 1).direction
              e == ById(players', 1).direction
          IN  (d.x # 0 \/ d.y # 0) => ~ Reverse(d, e) ]_vars

\* C9 witness: the Continuous human moves right while ArrowLeft, and no other
\* key, is held: the key that asks for the reverse was pressed and refused.
C9_Witness ==
    /\ engine = "smooth"
    /\ gameRunning
    /\ players[1].alive
    /\ players[1].direction = Dir(1, 0)
    /\ keys = [noKeys EXCEPT !["ArrowLeft"] = TRUE]

\* The direction an arrow key asks for.
KeyDirection(key) ==
    IF key = "ArrowUp" THEN Dir(0, -1)
    ELSE IF key = "ArrowDown" THEN Dir(0, 1)
    ELSE IF key = "ArrowLeft" THEN Dir(-1, 0)
    ELSE Dir(1, 0)

\* C10: Continuous engine.  After the key-down of an arrow key that does not
\* ask for the reverse of the human's direction (game running, human alive),
\* the human's direction is that key's, whatever other arrow keys are held.
C10_LatestKeyWins ==
    [][ (engine = "smooth" /\ KeyEventStep /\ gameRunning /\ players[1].alive) =>
          \A key \in ArrowKeys :
             (~ keys[key] /\ keys'[key]
                 /\ ~ Reverse(players[1].direction, KeyDirection(key)))
             => players'[1].direction = KeyDirection(key) ]_vars

\* C11: Continuous engine.  When an iteration of updatePlayers brings a living,
\* moving player with a non-empty trail to a position inside its territory:
\* with fewer than 3 trail points the trail is emptied and the list of
\* polygons is unchanged; with n >= 3 trail points the list is the old list
\* with one polygon appended, the n trail points in order followed by the new
\* position, and the trail is emptied.
C11_CloseTrail ==
    probe.op = "walk" =>
       LET p == probe.before
           q == probe.after
       IN  ( /\ p.direction # ZeroDir
             /\ Len(p.trail) > 0
             /\ isInTerritory(p, q.x, q.y) ) =>
              /\ q.trail = <<>>
              /\ IF Len(p.trail) < 3
                 THEN q.territory = p.territory
                 ELSE q.territory =
                         Append(p.territory, Append(p.trail, Pos(q.x, q.y)))

\* C11 witness: a player has come back inside its territory with a trail of
\* two points.
C11_Witness ==
    /\ probe.op = "walk"
    /\ probe.before.direction # ZeroDir
    /\ Len(probe.before.trail) = 2
    /\ isInTerritory(probe.before, probe.after.x, probe.after.y)

\* A player has come back inside its territory with a trail of three or more
\* points.
LongTrailClosed ==
    /\ probe.op = "walk"
    /\ probe.before.direction # ZeroDir
    /\ Len(probe.before.trail) >= 3
    /\ isInTerritory(probe.before, probe.after.x, probe.after.y)

OutsideCanvas(p) == p.x < 0 \/ p.x > canvasWidth \/ p.y < 0 \/ p.y > canvasHeight

\* C12: Continuous engine.  The collision pass of a tick leaves no player
\* alive whose position is outside the canvas, whatever its trail; and in
\* every state a tick of a running game goes through after that pass, its end
\* included, every living player has 0 <= x <= canvas width and
\* 0 <= y <= canvas height.
C12_InsideCanvas ==
    [][ engine = "smooth" =>
          /\ (pc = "collide" /\ pc' = "ai") =>
                \A k \in DOMAIN players :
                   OutsideCanvas(players[k]) => ~ players'[k].alive
          /\ pc' \in {"ai", "end", "idle"} =>
                \A k \in DOMAIN players' :
                   players'[k].alive => ~ OutsideCanvas(players'[k]) ]_vars

\* C12 witness: a tick has ended with a player eliminated outside the canvas
\* and another player alive.
C12_Witness ==
    /\ engine = "smooth"
    /\ pc = "idle"
    /\ \E k \in DOMAIN players : ~ players[k].alive /\ OutsideCanvas(players[k])
    /\ \E k \in DOMAIN players : players[k].alive

\* The 3x3 block of cells around a start position.
StartBlock(s) ==
    {Key(x, y) : x \in s.x - 1 .. s.x + 1, y \in s.y - 1 .. s.y + 1}

\* C13: a restart leaves exactly 4 players, in array order with ids 1..4,
\* only id 1 human, all alive, with zero direction and empty trail, at their
\* start positions, holding their initial territory and nothing else (Grid:
\* the 3x3 block around the start, every other grid cell with owner 0), and
\* gameRunning true; and a step that is not a restart changes neither the
\* number of players nor their ids nor their isHuman flags.
C13_Restart ==
    [][ /\ restarts' = restarts + 1 =>
            /\ gameRunning'
            /\ Len(players') = 4
            /\ \A i \in 1 .. 4 :
                  LET q == players'[i]
                      s == IF engine = "grid" THEN startPositions[i]
                           ELSE smoothStartPositions[i]
                  IN  /\ q.id = i
                      /\ q.isHuman = (i = 1)
                      /\ q.alive
                      /\ q.direction = ZeroDir
                      /\ q.trail = <<>>
                      /\ q.x = s.x /\ q.y = s.y
                      /\ IF engine = "grid"
                         THEN q.territory = StartBlock(s)
                         ELSE q.territory = createInitialTerritory(s.x, s.y)
            /\ engine = "grid" =>
                  \A c \in Cells :
                     grid'[c[2]][c[1]] =
                        IF \E i \in 1 .. 4 :
                              Key(c[1], c[2]) \in StartBlock(startPositions[i])
                        THEN CHOOSE i \in 1 .. 4 :
                                Key(c[1], c[2]) \in StartBlock(startPositions[i])
                        ELSE 0
        /\ restarts' = restarts =>
            /\ Len(players') = Len(players)
            /\ \A id \in 1 .. 4 :
                  /\ Cardinality({k \in DOMAIN players' : players'[k].id = id}) = 1
                  /\ ById(players', id).isHuman = ById(players, id).isHuman ]_vars

\* C13 witness: a Grid game has been restarted after a game over whose sort
\* had reordered the players array, and it runs again.
C13_Witness ==
    /\ engine = "grid"
    /\ restarts = 1
    /\ gameRunning
    /\ probe.op = "end"
    /\ showGameOver(probe.before).players # probe.before
    /\ \E k \in DOMAIN probe.before : ~ probe.before[k].alive

\* The size a row of the ranking shows: the number of cells (Grid) or the
\* area (Continuous).
RowSize(row) == IF engine = "grid" THEN row.size ELSE row.area

\* C14: the ranking shown at game end lists every player once, with the size
\* of its territory, in descending order of size, and players of equal size
\* in the order of the players array (ids ascending); in the Grid engine four
\* players with 9 cells each are ranked 1, 2, 3, 4.
C14_Ranking ==
    gameOver.shown =>
       LET rows == gameOver.ranking
       IN  /\ Len(rows) = 4
           /\ {rows[r].id : r \in 1 .. 4} = 1 .. 4
           /\ ~ gameRunning =>
                 \A r \in 1 .. 4 :
                    RowSize(rows[r]) =
                       IF engine = "grid"
                       THEN Cardinality(ById(players, rows[r].id).territory)
                       ELSE calculateTerritoryArea(ById(players, rows[r].id).territory)
           /\ \A r, t \in 1 .. 4 :
                 r < t =>
                    \/ RowSize(rows[r]) > RowSize(rows[t])
                    \/ RowSize(rows[r]) = RowSize(rows[t]) /\ rows[r].id < rows[t].id
           /\ (engine = "grid" /\ \A r \in 1 .. 4 : rows[r].size = 9) =>
                 [r \in 1 .. 4 |-> rows[r].id] = <<1, 2, 3, 4>>

\* C14 witness: a ranking whose first row is not player 1, followed by rows
\* of equal size.
C14_Witness ==
    /\ gameOver.shown
    /\ gameOver.ranking[1].id # 1
    /\ RowSize(gameOver.ranking[1]) > RowSize(gameOver.ranking[2])
    /\ RowSize(gameOver.ranking[2]) = RowSize(gameOver.ranking[3])

\* C15: while ticks keep being scheduled and the wall clock advances, every
\* state in which gameRunning is true is followed by a state in which it is
\* false, whatever the players and the key listeners do.
C15_MatchEnds == gameRunning ~> ~ gameRunning

\* C15 witness: a match that was restarted has ended with the time up and
\* more than one player alive.
C15_Witness ==
    /\ restarts = 1
    /\ pc = "idle"
    /\ ~ gameRunning
    /\ AliveCount(players) > 1
    /\ now - gameStartTime >= gameTimeLimit

\* C16: Grid engine.  In every state no cell of a player's trail is in the
\* territory set of that player.
C16_TrailOutsideTerritory ==
    engine = "grid" =>
       \A k \in DOMAIN players :
          \A j \in DOMAIN players[k].trail :
             Key(players[k].trail[j].x, players[k].trail[j].y)
                \notin players[k].territory

\* C16 witness: a living player is two cells into a trail while another
\* player holds more than its starting block.
C16_Witness ==
    /\ engine = "grid"
    /\ \E k, o \in DOMAIN players :
          /\ players[k].alive
          /\ Len(players[k].trail) >= 2
          /\ Cardinality(players[o].territory) > 9

\* C17: Continuous engine.  In every state no point of a player's trail lies
\* inside a polygon of the territory of that player.
C17_TrailOutsidePolygons ==
    engine = "smooth" =>
       \A k \in DOMAIN players :
          \A j \in DOMAIN players[k].trail :
             ~ isInTerritory(players[k], players[k].trail[j].x, players[k].trail[j].y)

\* An iteration of the loop of updatePlayers is taken: in a running tick for
\* players[cur], on a hand-drawn board for players[probe'.k].
Stepping == (engine = "grid" /\ pc = "players") \/ (pc = "bench" /\ ticks' = ticks + 1)

\* C18: Grid engine.  An iteration of updatePlayers for a living AI player
\* that is due and has a direction never leaves it with the reverse of that
\* direction, and changes its direction only to one whose next cell is a
\* valid move; and the player is eliminated in the iteration only if none of
\* the three directions other than the reverse leads to a valid cell, and
\* then its direction is the one it had.
C18_AIPolicy ==
    [][ Stepping =>
          LET k == IF pc = "players" THEN cur ELSE probe'.k
              p == players[k]
              q == players'[k]
              ok(d) == isValidMove(players, grid, k, p.x + d.x, p.y + d.y)
          IN  (~ p.isHuman /\ playerDue(p, now') /\ p.direction # ZeroDir) =>
                 /\ ~ Reverse(p.direction, q.direction)
                 /\ q.direction # p.direction => ok(q.direction)
                 /\ ~ q.alive =>
                       /\ q.direction = p.direction
                       /\ \A n \in DOMAIN directions :
                             ~ Reverse(p.direction, directions[n])
                                => ~ ok(directions[n]) ]_vars

\* C18 witness: an AI player that had a direction has been eliminated by its
\* own step.
C18_Witness ==
    /\ probe.op = "step"
    /\ ~ probe.before[probe.k].isHuman
    /\ probe.before[probe.k].alive
    /\ probe.before[probe.k].direction # ZeroDir
    /\ ~ players[probe.k].alive

\* C19: Grid engine.  In an iteration of updatePlayers a player is eliminated
\* exactly when it is due, has a direction and its step is not a valid move.
\* The elimination sets its alive flag to false and empties its trail, and
\* leaves its position, its territory and the grid as they were; and no
\* iteration changes the alive flag of another player, nor, when it
\* eliminates, the trail of another player.
C19_Elimination ==
    [][ Stepping =>
          LET k == IF pc = "players" THEN cur ELSE probe'.k
              p == players[k]
              q == players'[k]
              attempts == playerDue(p, now') /\ q.direction # ZeroDir
              invalid == ~ isValidMove(players, grid, k, p.x + q.direction.x,
                                       p.y + q.direction.y)
              eliminated == p.alive /\ ~ q.alive
          IN  /\ eliminated <=> (attempts /\ invalid)
              /\ eliminated =>
                    /\ q.trail = <<>>
                    /\ q.x = p.x /\ q.y = p.y
                    /\ q.territory = p.territory
                    /\ grid' = grid
                    /\ \A o \in DOMAIN players :
                          o # k => players'[o].trail = players[o].trail
              /\ \A o \in DOMAIN players :
                    o # k => players'[o].alive = players[o].alive ]_vars

\* C19 witness: a player has been eliminated by its step while its trail
\* shared a cell with the trail of another living player.
C19_Witness ==
    /\ probe.op = "step"
    /\ probe.before[probe.k].alive
    /\ ~ players[probe.k].alive
    /\ \E o \in DOMAIN players :
          /\ o # probe.k
          /\ players[o].alive
          /\ \E j \in DOMAIN probe.before[probe.k].trail :
                TrailHas(players[o].trail, probe.before[probe.k].trail[j].x,
                         probe.before[probe.k].trail[j].y)

\* The collision pass of a tick is taken, in a running tick or on hand-drawn
\* players.
CollisionPass ==
    /\ engine = "smooth"
    /\ \/ pc = "collide" /\ pc' = "ai"
       \/ pc = "bench" /\ probe.op # "pass" /\ probe'.op = "pass"

\* C20: Continuous engine.  After the collision pass no living player stands
\* closer than playerSize to a segment of the trail of another living player.
\* The pass moves nobody and leaves every survivor as it was; a player it
\* eliminates has alive false, an empty trail and the zero direction.  In
\* array order: a living player is eliminated exactly when it stands outside
\* the canvas, or closer than playerSize to the trail of another player that
\* was alive and either comes later in the array or survives the pass, or to
\* its own trail of more than 10 points less the last 5; the trail of a
\* player eliminated earlier in the pass eliminates nobody.
C20_CollisionPass ==
    [][ CollisionPass =>
          LET near(k, trail) ==
                 isPointNearTrail(players[k].x, players[k].y, trail, playerSize)
              standing(k, o) ==
                 /\ o # k
                 /\ players[o].alive
                 /\ o > k \/ players'[o].alive
              hitOwn(k) ==
                 /\ Len(players[k].trail) > 10
                 /\ near(k, SubSeq(players[k].trail, 1, Len(players[k].trail) - 5))
          IN  /\ DOMAIN players' = DOMAIN players
              /\ \A k \in DOMAIN players :
                    /\ players'[k].x = players[k].x /\ players'[k].y = players[k].y
                    /\ players'[k].alive => players'[k] = players[k]
                    /\ ~ players'[k].alive =>
                          players'[k].trail = <<>> /\ players'[k].direction = ZeroDir
                    /\ players[k].alive =>
                          (~ players'[k].alive <=>
                              \/ OutsideCanvas(players[k])
                              \/ \E o \in DOMAIN players :
                                    standing(k, o) /\ near(k, players[o].trail)
                              \/ hitOwn(k))
              /\ \A k, o \in DOMAIN players :
                    (k # o /\ players'[k].alive /\ players'[o].alive) =>
                       ~ isPointNearTrail(players'[k].x, players'[k].y,
                                          players'[o].trail, playerSize) ]_vars

\* C20 witness: a pass has left a player alive that stands closer than
\* playerSize to the trail a player before it in the array had until the pass
\* eliminated it.
C20_Witness ==
    /\ probe.op = "pass"
    /\ \E k, o \in DOMAIN players :
          /\ o < k
          /\ probe.before[o].alive /\ ~ players[o].alive
          /\ players[k].alive
          /\ isPointNearTrail(players[k].x, players[k].y, probe.before[o].trail,
                              playerSize)

BenchKeyStep ==
    pc = "bench" /\ probe'.op = "key" /\ ticks' = ticks /\ restarts' = restarts

\* C22: in both engines a key event leaves the grid, the scores, the
\* game-over panel, gameRunning and the clock readings as they were, and every
\* player as it was but for the direction of the player with id 1; and it
\* leaves the players array as it was when the game is not running or player
\* 1 is not alive.  (The key-state map of the Continuous listeners is the
\* record of the keyboard, not part of the game.)
C22_KeysOnlySteerHuman ==
    [][ (KeyEventStep \/ BenchKeyStep) =>
          /\ grid' = grid
          /\ scores' = scores
          /\ gameOver' = gameOver
          /\ gameRunning' = gameRunning
          /\ gameStartTime' = gameStartTime
          /\ now' = now
          /\ DOMAIN players' = DOMAIN players
          /\ \A k \in DOMAIN players :
                \/ players'[k] = players[k]
                \/ /\ players[k].id = 1
                   /\ players'[k] =
                         [players[k] EXCEPT !.direction = players'[k].direction]
          /\ (~ gameRunning \/ ~ ById(players, 1).alive) => players' = players ]_vars

\* C22 witness: the keydown listener has run on a Grid game that is over and
\* whose players array the ranking has reordered: its first element is a
\* living AI player.
C22_Witness ==
    /\ engine = "grid"
    /\ probe.op = "key"
    /\ ~ gameRunning
    /\ players[1].id # 1
    /\ players[1].alive
    /\ ~ players[1].isHuman

\* C23: while gameRunning is false, a step that is not a restart leaves the
\* players array, the grid, the scores and the game-over panel as they were
\* and gameRunning false, and starts neither the loop of updatePlayers nor
\* the collision, AI or end-check steps; the game-over panel changes only in
\* the step that ends a match and in a restart.
C23_StoppedGameFrozen ==
    [][ /\ (~ gameRunning /\ restarts' = restarts) =>
              /\ players' = players
              /\ grid' = grid
              /\ scores' = scores
              /\ gameOver' = gameOver
              /\ ~ gameRunning'
              /\ pc' = pc
        /\ gameOver' # gameOver =>
              \/ gameRunning /\ ~ gameRunning' /\ gameOver'.shown
              \/ restarts' = restarts + 1 /\ ~ gameOver'.shown ]_vars

\* C23 witness: a frame has come and gone after the one that ended the match
\* on time, with more than one player alive.
C23_Witness ==
    /\ pc = "idle"
    /\ ~ gameRunning
    /\ gameOver.shown
    /\ AliveCount(players) > 1
    /\ now - gameStartTime >= 2 * gameTimeLimit

\* C24: in both engines, at the end of every tick the score panel has one
\* row per player, whose status is the alive flag the player has and whose
\* percentage is the one computed from the territory the player has.
C24_ScorePanelCurrent ==
    pc = "idle" =>
       /\ {scores[r].id : r \in DOMAIN scores} = {players[k].id : k \in DOMAIN players}
       /\ \A r \in DOMAIN scores :
             LET p == ById(players, scores[r].id)
             IN  /\ scores[r].alive = p.alive
                 /\ scores[r].percentage =
                       IF engine = "grid"
                       THEN Percentage(Cardinality(p.territory), mapWidth * mapHeight)
                       ELSE AreaPercentage(calculateTerritoryArea(p.territory))

\* C25: Grid engine.  Whatever key events come between two moves, the human
\* player never attempts a step in the direction opposite to that of its
\* previous step.  The last cell of a trail is the cell its player left by
\* its previous step, so: a human player with a trail never attempts a step
\* onto the last cell of its trail.
C25_NoSelfReversal ==
    [][ Stepping =>
          LET k == IF pc = "players" THEN cur ELSE probe'.k
              p == players[k]
              q == players'[k]
          IN  (/\ p.isHuman
               /\ playerDue(p, now')
               /\ q.direction # ZeroDir
               /\ Len(p.trail) > 0) =>
                 Pos(p.x + q.direction.x, p.y + q.direction.y) # p.trail[Len(p.trail)]
      ]_vars

\* C26: Grid engine.  In every state the trails of two different living
\* players have no cell in common.
C26_TrailsDisjoint ==
    engine = "grid" =>
       \A k, o \in DOMAIN players :
          (k # o /\ players[k].alive /\ players[o].alive) =>
             \A j \in DOMAIN players[k].trail :
                ~ TrailHas(players[o].trail, players[k].trail[j].x, players[k].trail[j].y)

\* C27: Grid engine.  In every state no two living players stand on the same
\* cell.
C27_OnePlayerPerCell ==
    engine = "grid" =>
       \A k, o \in DOMAIN players :
          (k # o /\ players[k].alive /\ players[o].alive) =>
             ~ (players[k].x = players[o].x /\ players[k].y = players[o].y)

\* C28: Grid engine.  In every state neither the cell a living player stands
\* on nor any cell of its trail has an owner in the grid that is another
\* player.
C28_NoForeignOwnerUnderPlayer ==
    engine = "grid" =>
       \A k \in DOMAIN players :
          players[k].alive =>
             /\ grid[players[k].y][players[k].x] \in {0, players[k].id}
             /\ \A j \in DOMAIN players[k].trail :
                   grid[players[k].trail[j].y][players[k].trail[j].x]
                      \in {0, players[k].id}

====
